---- MODULE Spec2Model ----
(***************************************************************************)
(* State-machine model of the simple-sensors drivers (src/src/dhtxx.rs).   *)
(* Durations are whole milliseconds; tick counts are busy-poll iterations. *)
(***************************************************************************)
EXTENDS Integers, Naturals, Sequences, FiniteSets, TLC

\* ------------------------------------------------------------------------
\* Program constants
\* ------------------------------------------------------------------------
MIN_DHT11_READ_INTERVAL == 1000
MIN_DHT22_READ_INTERVAL == 2000
DHT11_PING_DURATION == 18
DHT22_PING_DURATION == 1
TIMEOUT == 2
WATCHDOG_COUNTS == 1000
\* A u32 is held as the integer with the same 32 bits read as i32: v itself
\* below 2^31 and v - 2^32 from 2^31 on, so u32::MAX is -1.
U32_MAX == -1
I32_MAX == 2147483647
\* ack_counter << 2 in 32 bits keeps the low 30 bits of ack_counter.
ShiftModulus == 1073741824
NumBits == 40
NumBuckets == 10

\* ------------------------------------------------------------------------
\* Bounds of the model
\* ------------------------------------------------------------------------
\* Largest max_attempts value offered to new (0 is offered too).
MaxAttempts == 2
\* Number of read calls issued on one handle.
MaxCalls == 2
\* Largest poll count explored inside read_ack.
MaxAckPolls == 2100
\* Largest elapsed time (ms) the clock reports while read_ack polls.
MaxAckElapsed == 3

None == [kind |-> "None"]

\* f itself, as a table TLC computes once instead of at every application.
Tabulate(f) == f @@ <<>>

\* ------------------------------------------------------------------------
\* Error / Result values
\* ------------------------------------------------------------------------
ErrInvalidArgument == [kind |-> "InvalidArgument"]
ErrBadData == [kind |-> "BadData"]
ErrNoResponse == [kind |-> "NoResponse"]
\* Error::Wrapped(e): e names the HAL operation that failed.
ErrWrapped(op) == [kind |-> "Wrapped", op |-> op]
Ok(v) == [kind |-> "Ok", value |-> v]

IsErr(r) == r.kind \in {"InvalidArgument", "BadData", "NoResponse", "Wrapped"}

\* ------------------------------------------------------------------------
\* Responses (Dht11Response / Dht22Response)
\* ------------------------------------------------------------------------
Dht11_from_raw_bytes(bytes) ==
    [humidity |-> bytes[1], humidity_decimal |-> bytes[2],
     temperature |-> bytes[3], temperature_decimal |-> bytes[4]]

\* Faulty variant of Dht11_is_valid: a decimal part is accepted at the top of
\* each range.
Dht11_is_valid_LooseTop(r) ==
    /\ r.humidity <= 100 /\ r.humidity_decimal < 10
    /\ r.temperature <= 75 /\ r.temperature_decimal < 10

Dht11_is_valid(r) ==
    /\ \/ (r.humidity < 100 /\ r.humidity_decimal < 10)
       \/ (r.humidity = 100 /\ r.humidity_decimal = 0)
    /\ \/ (r.temperature < 75 /\ r.temperature_decimal < 10)
       \/ (r.temperature = 75 /\ r.temperature_decimal = 0)

Dht22_from_raw_bytes(bytes) ==
    [humidity_x10 |-> bytes[1] * 256 + bytes[2],
     temperature_x10 |-> bytes[3] * 256 + bytes[4]]

\* Faulty variant of Dht22_get_temperature: temperature_x10 is read as a
\* two's-complement number.
Dht22_get_temperature_TwosComplement(r) ==
    IF r.temperature_x10 >= 32768 THEN r.temperature_x10 - 65536 ELSE r.temperature_x10

\* Dht22Response::get_temperature in tenths of a degree: the magnitude is the
\* low 15 bits of temperature_x10, negated when bit 15 is set (the product
\* with 0.1 in f32 is left out).
Dht22_get_temperature(r) ==
    LET result == r.temperature_x10 % 32768
    IN IF (r.temperature_x10 \div 32768) % 2 # 0 THEN 0 - result ELSE result

\* Faulty variant of Dht22_is_valid: the temperature limits are exclusive.
Dht22_is_valid_ExclusiveLimits(r) ==
    LET temp_is_negative == r.temperature_x10 >= 32768
        temp_is_valid ==
            \/ (temp_is_negative /\ (r.temperature_x10 % 32768) < 600)
            \/ (~temp_is_negative /\ r.temperature_x10 < 1500)
    IN r.humidity_x10 <= 1000 /\ temp_is_valid

\* Faulty variant of Dht22_is_valid: the sign bit is ignored.
Dht22_is_valid_Unsigned(r) ==
    r.humidity_x10 <= 1000 /\ r.temperature_x10 < 1501

Dht22_is_valid(r) ==
    LET temp_is_negative == r.temperature_x10 >= 32768
        temp_is_valid ==
            \/ (temp_is_negative /\ (r.temperature_x10 % 32768) < 601)
            \/ (~temp_is_negative /\ r.temperature_x10 < 1501)
    IN r.humidity_x10 <= 1000 /\ temp_is_valid

from_raw_bytes(s, bytes) ==
    IF s = "Dht11" THEN Dht11_from_raw_bytes(bytes) ELSE Dht22_from_raw_bytes(bytes)

is_valid(s, r) ==
    IF s = "Dht11" THEN Dht11_is_valid(r) ELSE Dht22_is_valid(r)

\* ------------------------------------------------------------------------
\* u32 arithmetic of a build without overflow checks (the release profile):
\* every result is taken modulo 2^32.  The operands and results are the i32
\* readings of the 32 bits.
\* ------------------------------------------------------------------------
\* a < b on u32.
U32Lt(a, b) == IF (a < 0) = (b < 0) THEN a < b ELSE b < 0

\* a + b leaves the u32 range.
AddOverflows(a, b) ==
    IF a >= 0 /\ b >= 0 THEN FALSE
    ELSE IF a < 0 /\ b < 0 THEN TRUE
    ELSE a + b >= 0

\* a + b on u32.
U32Add(a, b) ==
    IF a >= 0 /\ b >= 0
    THEN IF a > I32_MAX - b
         THEN (a - I32_MAX - 1) + (b - I32_MAX - 1)
         ELSE a + b
    ELSE IF a < 0 /\ b < 0
    THEN IF a < (0 - I32_MAX - 1) - b
         THEN (a + I32_MAX + 1) + (b + I32_MAX + 1)
         ELSE a + b
    ELSE a + b

\* a - b on u32.
U32Sub(a, b) ==
    IF (a < 0) = (b < 0) THEN a - b
    ELSE IF a >= 0
    THEN IF a > I32_MAX + b
         THEN (a - I32_MAX - 1) - (b + I32_MAX + 1)
         ELSE a - b
    ELSE IF a < (0 - I32_MAX - 1) + b
         THEN (a + I32_MAX + 1) - (b - I32_MAX - 1)
         ELSE a - b

\* a / d on u32, for d # 0.
U32Div(a, d) ==
    IF d < 0 THEN (IF U32Lt(a, d) THEN 0 ELSE 1)
    ELSE IF a >= 0 THEN a \div d
    ELSE IF d = 1 THEN a
    ELSE LET low == a + I32_MAX + 1
             top_r == (I32_MAX % d) + 1
             q1 == (I32_MAX \div d) + (IF top_r = d THEN 1 ELSE 0)
             r1 == IF top_r = d THEN 0 ELSE top_r
         IN q1 + (low \div d) + (IF r1 >= d - (low % d) THEN 1 ELSE 0)

\* a * k leaves the u32 range, for k in 0..10.
MulOverflows(a, k) ==
    k > 1 /\ (a < 0 \/ a > I32_MAX \div k) /\ U32Lt(U32Div(U32_MAX, k), a)

RECURSIVE MulByAdding(_, _)
MulByAdding(a, k) ==
    IF k = 0 THEN 0 ELSE U32Add(MulByAdding(a, k - 1), a)

\* a * k on u32, for k in 0..10 and for k = u32::MAX (-1 as i8 cast to u32).
U32Mul(a, k) ==
    IF k = U32_MAX THEN U32Sub(0, a)
    ELSE IF a >= 0 /\ (k = 0 \/ a <= I32_MAX \div k) THEN a * k
    ELSE MulByAdding(a, k)

\* ------------------------------------------------------------------------
\* determine_tick_threshold and parse_byte
\* ------------------------------------------------------------------------
\* The first loop of determine_tick_threshold: the smallest and the largest
\* tick count of the frame (u32::MAX and 0 for an empty frame).
MinTicks(bit_ticks) ==
    IF Len(bit_ticks) = 0 THEN U32_MAX
    ELSE CHOOSE m \in {bit_ticks[k] : k \in 1..Len(bit_ticks)} :
            \A k \in 1..Len(bit_ticks) : ~U32Lt(bit_ticks[k], m)

MaxTicks(bit_ticks) ==
    IF Len(bit_ticks) = 0 THEN 0
    ELSE CHOOSE m \in {bit_ticks[k] : k \in 1..Len(bit_ticks)} :
            \A k \in 1..Len(bit_ticks) : ~U32Lt(m, bit_ticks[k])

BucketOf(ticks, min, range) ==
    LET bucket == U32Div(U32Mul(U32Sub(ticks, min), NumBuckets), range)
    IN IF ~U32Lt(bucket, NumBuckets) THEN NumBuckets - 1 ELSE bucket

\* buckets[b] for b in 0..9: the histogram of the frame.
Histogram(bit_ticks, min, range) ==
    Tabulate([b \in 0..(NumBuckets - 1) |->
        Cardinality({i \in 1..Len(bit_ticks) : BucketOf(bit_ticks[i], min, range) = b})])

Peak(index, count) == [index |-> index, count |-> count]

\* Faulty variant of IsPeak: a bucket equal to the next one counts as a peak.
IsPeak_NextNotStrict(buckets, i) ==
    LET count == buckets[i]
        previous_count == IF i = 0 THEN 0 ELSE buckets[i - 1]
    IN /\ count > previous_count
       /\ (i = NumBuckets - 1 \/ count >= buckets[i + 1])

IsPeak(buckets, i) ==
    LET count == buckets[i]
        previous_count == IF i = 0 THEN 0 ELSE buckets[i - 1]
    IN /\ count > previous_count
       /\ (i = NumBuckets - 1 \/ count > buckets[i + 1])

\* The peaks found by the scan, in scan order.
FindPeaks(buckets) ==
    LET all == [k \in 1..NumBuckets |-> Peak(k - 1, buckets[k - 1])]
        is_peak(p) == IsPeak(buckets, p.index)
    IN SelectSeq(all, is_peak)

\* The peaks array after the scan: the peaks found, then Peak(-1, 0).
PadPeaks(found) ==
    Tabulate([k \in 1..NumBuckets |-> IF k <= Len(found) THEN found[k] ELSE Peak(-1, 0)])

\* Faulty variant of PeakStep: a peak equal to the second highest replaces it.
PeakStep_LastWins(acc, peak) ==
    IF peak.count > acc[1].count THEN <<peak, acc[1]>>
    ELSE IF peak.count >= acc[2].count THEN <<acc[1], peak>>
    ELSE acc

\* One iteration of the loop selecting the two highest peaks; acc is
\* <<highest_peak, second_highest_peak>>.
PeakStep(acc, peak) ==
    IF peak.count > acc[1].count THEN <<peak, acc[1]>>
    ELSE IF peak.count > acc[2].count THEN <<acc[1], peak>>
    ELSE acc

\* The loop over the 10 entries of peaks, starting from peaks[peaks.len() - 1].
TwoHighest(peaks) ==
    PeakStep(PeakStep(PeakStep(PeakStep(PeakStep(PeakStep(PeakStep(PeakStep(PeakStep(PeakStep(
        <<peaks[NumBuckets], peaks[NumBuckets]>>,
        peaks[1]), peaks[2]), peaks[3]), peaks[4]), peaks[5]),
        peaks[6]), peaks[7]), peaks[8]), peaks[9]), peaks[10])

index_to_ticks(index, min, max, range) ==
    IF index = NumBuckets - 1
    THEN max
    ELSE LET base == U32Add(U32Div(U32Mul(range, index), 10), min)
             next_base == U32Add(U32Div(U32Mul(range, U32Add(index, 1)), 10), min)
         IN U32Div(U32Add(base, next_base), 2)

\* The tail of determine_tick_threshold once highest_peak and
\* second_highest_peak are chosen.
ThresholdOfPeaks(highest_peak, second_highest_peak, min, max, range) ==
    LET high_ticks ==
            IF highest_peak.index > second_highest_peak.index
            THEN index_to_ticks(highest_peak.index, min, max, range)
            ELSE index_to_ticks(second_highest_peak.index, min, max, range)
        low_ticks ==
            IF highest_peak.index > second_highest_peak.index
            THEN index_to_ticks(second_highest_peak.index, min, max, range)
            ELSE index_to_ticks(highest_peak.index, min, max, range)
    IN U32Div(U32Add(high_ticks, low_ticks), 2)

ThresholdOfTwo(two, min, max, range) ==
    ThresholdOfPeaks(two[1], two[2], min, max, range)

\* Faulty variant of ThresholdOfFound: the midpoint is taken without min.
ThresholdOfFound_NoMin(found, peaks, min, max, range) ==
    IF Len(found) < 2
    THEN U32Div(range, 2)
    ELSE ThresholdOfTwo(TwoHighest(peaks), min, max, range)

\* determine_tick_threshold from the peaks array on.
ThresholdOfFound(found, peaks, min, max, range) ==
    IF Len(found) < 2
    THEN U32Add(min, U32Div(range, 2))
    ELSE ThresholdOfTwo(TwoHighest(peaks), min, max, range)

ThresholdOfPeakScan(found, min, max, range) ==
    ThresholdOfFound(found, PadPeaks(found), min, max, range)

ThresholdOfHistogram(buckets, min, max, range) ==
    ThresholdOfPeakScan(FindPeaks(buckets), min, max, range)

\* determine_tick_threshold from the histogram on.
ThresholdOfRange(bit_ticks, min, max, range) ==
    ThresholdOfHistogram(Histogram(bit_ticks, min, range), min, max, range)

ThresholdOfMinMax(bit_ticks, min, max) ==
    ThresholdOfRange(bit_ticks, min, max, U32Add(U32Sub(max, min), 1))

determine_tick_threshold(bit_ticks) ==
    ThresholdOfMinMax(bit_ticks, MinTicks(bit_ticks), MaxTicks(bit_ticks))

\* Some sum or product of index_to_ticks leaves the u32 range.
IndexToTicksOverflows(index, min, range) ==
    /\ index # NumBuckets - 1
    /\ LET scaled == U32Div(U32Mul(range, index), 10)
           next_scaled == U32Div(U32Mul(range, U32Add(index, 1)), 10)
       IN \/ MulOverflows(range, index)
          \/ AddOverflows(index, 1)
          \/ MulOverflows(range, U32Add(index, 1))
          \/ AddOverflows(scaled, min)
          \/ AddOverflows(next_scaled, min)
          \/ AddOverflows(U32Add(scaled, min), U32Add(next_scaled, min))

\* Some sum or product of determine_tick_threshold leaves the u32 range.
ThresholdOverflows(bit_ticks) ==
    LET min == MinTicks(bit_ticks)
        max == MaxTicks(bit_ticks)
        range == U32Add(U32Sub(max, min), 1)
        found == FindPeaks(Histogram(bit_ticks, min, range))
        two == TwoHighest(PadPeaks(found))
    IN \/ AddOverflows(U32Sub(max, min), 1)
       \/ \E k \in 1..Len(bit_ticks) :
            MulOverflows(U32Sub(bit_ticks[k], min), NumBuckets)
       \/ IF Len(found) < 2
          THEN AddOverflows(min, U32Div(range, 2))
          ELSE \/ IndexToTicksOverflows(two[1].index, min, range)
               \/ IndexToTicksOverflows(two[2].index, min, range)
               \/ AddOverflows(index_to_ticks(two[1].index, min, max, range),
                               index_to_ticks(two[2].index, min, max, range))

Pow2(n) == IF n = 0 THEN 1 ELSE IF n = 1 THEN 2 ELSE IF n = 2 THEN 4
           ELSE IF n = 3 THEN 8 ELSE IF n = 4 THEN 16 ELSE IF n = 5 THEN 32
           ELSE IF n = 6 THEN 64 ELSE 128

\* Faulty variant of ParsedBit: assembles the byte least-significant bit first.
ParsedBit_LsbFirst(bit_ticks, from, threshold, i) ==
    IF U32Lt(threshold, bit_ticks[from + i + 1]) THEN Pow2(i) ELSE 0

\* Faulty variant of ParsedBit: a pulse equal to the threshold counts as 1.
ParsedBit_AtThreshold(bit_ticks, from, threshold, i) ==
    IF ~U32Lt(bit_ticks[from + i + 1], threshold) THEN Pow2(7 - i) ELSE 0

\* The contribution of bit i of parse_byte's loop over the 8 tick counts that
\* start at offset `from` (0-based).
ParsedBit(bit_ticks, from, threshold, i) ==
    IF U32Lt(threshold, bit_ticks[from + i + 1]) THEN Pow2(7 - i) ELSE 0

parse_byte(bit_ticks, from, threshold) ==
    ParsedBit(bit_ticks, from, threshold, 0) + ParsedBit(bit_ticks, from, threshold, 1)
    + ParsedBit(bit_ticks, from, threshold, 2) + ParsedBit(bit_ticks, from, threshold, 3)
    + ParsedBit(bit_ticks, from, threshold, 4) + ParsedBit(bit_ticks, from, threshold, 5)
    + ParsedBit(bit_ticks, from, threshold, 6) + ParsedBit(bit_ticks, from, threshold, 7)

\* ------------------------------------------------------------------------
\* The line as the sampling loops see it
\* ------------------------------------------------------------------------
\* A pulse is the number of polls the line stays low, then high.
ShortPulse == [low |-> 2, high |-> 2]
LongPulse == [low |-> 2, high |-> 3]
EndPulseLow == 2

BitOf(byte, i) == (byte \div Pow2(7 - i)) % 2

\* The pulse train a sensor emits for 5 bytes, most-significant bit first.
create_data_vec(bytes) ==
    Tabulate([k \in 1..NumBits |->
        IF BitOf(bytes[((k - 1) \div 8) + 1], (k - 1) % 8) = 1 THEN LongPulse ELSE ShortPulse])

\* Frames offered by the environment: all-zero, bad checksum, valid non-zero,
\* checksum-valid but out of range for both sensors.
FrameBytes ==
    { <<0, 0, 0, 0, 0>>, <<0, 0, 0, 0, 1>>, <<1, 2, 0, 3, 6>>, <<200, 0, 0, 0, 200>> }

\* Values read_ack can hand back to receive_data.
AckCounts == {1, 4}
AckResults == {ErrNoResponse, ErrWrapped("is_high")} \cup {Ok(c) : c \in AckCounts}

\* One receive phase as offered by the environment: the outcome of read_ack,
\* the bytes the sensor sends, the length of the trailing end pulse, and the
\* position of a HAL read error (0: none, 1..40: that bit, 41: the end pulse).
Samples ==
    {[ack |-> a, bytes |-> <<0, 0, 0, 0, 0>>, end_low |-> EndPulseLow, err_at |-> 0] :
        a \in AckResults}
    \cup {[ack |-> Ok(4), bytes |-> b, end_low |-> e, err_at |-> 0] :
        b \in FrameBytes, e \in {EndPulseLow, 6, 17}}
    \cup {[ack |-> Ok(1), bytes |-> <<1, 2, 0, 3, 6>>, end_low |-> EndPulseLow, err_at |-> 0]}
    \cup {[ack |-> Ok(4), bytes |-> <<0, 0, 0, 0, 0>>, end_low |-> EndPulseLow, err_at |-> k] :
        k \in {17, 41}}

\* Faulty variant of read_bit_with_timeout: each loop counts from zero.
read_bit_with_timeout_PerPhase(pulse, timeout, hal_error) ==
    IF hal_error THEN ErrWrapped("is_low")
    ELSE IF pulse.low > timeout THEN ErrBadData
    ELSE IF pulse.high > timeout THEN ErrBadData
    ELSE Ok(pulse.low + pulse.high)

\* read_bit_with_timeout on a line that stays low for pulse.low polls and then
\* high for pulse.high polls; the counter runs on across both loops.
read_bit_with_timeout(pulse, timeout, hal_error) ==
    IF hal_error THEN ErrWrapped("is_low")
    ELSE IF pulse.low > timeout THEN ErrBadData
    ELSE IF pulse.low + pulse.high > timeout THEN ErrBadData
    ELSE Ok(pulse.low + pulse.high)

read_end_with_timeout(low, timeout, hal_error) ==
    IF hal_error THEN ErrWrapped("is_low")
    ELSE IF low > timeout THEN ErrBadData
    ELSE Ok(low)

\* The for loop over the 40 bits: the first error ends it.
ReadBits(train, bit_timeout, err_at) ==
    LET bit(k) == read_bit_with_timeout(train[k], bit_timeout, err_at = k)
        failed == {k \in 1..NumBits : IsErr(bit(k))}
    IN IF failed = {}
       THEN Ok(Tabulate([k \in 1..NumBits |-> bit(k).value]))
       ELSE bit(CHOOSE k \in failed : \A j \in failed : k <= j)

\* bit_timeout = ack_counter << 2 on u32: the bits shifted out are lost.
BitTimeout(ack_counter) == (ack_counter % ShiftModulus) * 4

\* receive_data between the two mode switches: ACK, 40 bits, end pulse, on a
\* line that plays the pulse train `train`.
SampleTrain(ack, train, end_low, err_at) ==
    IF IsErr(ack) THEN ack
    ELSE LET ack_counter == ack.value
             bit_timeout == BitTimeout(ack_counter)
             bits == ReadBits(train, bit_timeout, err_at)
             end == read_end_with_timeout(end_low, bit_timeout, err_at = 41)
         IN IF IsErr(bits) THEN bits
            ELSE IF IsErr(end) THEN end
            ELSE Ok([bit_ticks |-> bits.value, end_ticks |-> end.value])

\* The same for a sensor that sends sample.bytes with the pulses of
\* create_data_vec.
SampleLine(sample) ==
    SampleTrain(sample.ack, create_data_vec(sample.bytes), sample.end_low, sample.err_at)

\* Faulty variant of DecodeWithThreshold: the parity byte is not compared.
DecodeWithThreshold_NoParity(bit_ticks, end_ticks, threshold) ==
    LET high_humidity == parse_byte(bit_ticks, 0, threshold)
        low_humidity == parse_byte(bit_ticks, 8, threshold)
        high_temp == parse_byte(bit_ticks, 16, threshold)
        low_temp == parse_byte(bit_ticks, 24, threshold)
        end_bit == IF end_ticks > threshold THEN 1 ELSE 0
    IN IF end_bit = 1
       THEN ErrBadData
       ELSE Ok(<<high_humidity, low_humidity, high_temp, low_temp>>)

\* Faulty variant of DecodeWithThreshold: the end pulse is not classified.
DecodeWithThreshold_NoEndBit(bit_ticks, end_ticks, threshold) ==
    LET high_humidity == parse_byte(bit_ticks, 0, threshold)
        low_humidity == parse_byte(bit_ticks, 8, threshold)
        high_temp == parse_byte(bit_ticks, 16, threshold)
        low_temp == parse_byte(bit_ticks, 24, threshold)
        parity == parse_byte(bit_ticks, 32, threshold)
        sum == high_humidity + low_humidity + high_temp + low_temp
        expected_parity == sum % 256
    IN IF parity # expected_parity
       THEN ErrBadData
       ELSE Ok(<<high_humidity, low_humidity, high_temp, low_temp>>)

\* receive_data after the line is back in output mode: bytes and parity
\* against the threshold.
DecodeWithThreshold(bit_ticks, end_ticks, threshold) ==
    LET high_humidity == parse_byte(bit_ticks, 0, threshold)
        low_humidity == parse_byte(bit_ticks, 8, threshold)
        high_temp == parse_byte(bit_ticks, 16, threshold)
        low_temp == parse_byte(bit_ticks, 24, threshold)
        parity == parse_byte(bit_ticks, 32, threshold)
        sum == high_humidity + low_humidity + high_temp + low_temp
        expected_parity == sum % 256
        end_bit == IF end_ticks > threshold THEN 1 ELSE 0
    IN IF parity # expected_parity \/ end_bit = 1
       THEN ErrBadData
       ELSE Ok(<<high_humidity, low_humidity, high_temp, low_temp>>)

DecodeFrame(bit_ticks, end_ticks) ==
    DecodeWithThreshold(bit_ticks, end_ticks, determine_tick_threshold(bit_ticks))

\* The tail of DhtBase::read: from_raw_bytes and is_valid.
ValidateResponse(s, bytes) ==
    LET result == from_raw_bytes(s, bytes)
    IN IF ~is_valid(s, result) THEN ErrBadData ELSE Ok(result)

\* ------------------------------------------------------------------------
\* State
\* ------------------------------------------------------------------------
VARIABLES
    sensor,            \* "Dht11" or "Dht22": which dhtxx_impl! expansion
    opt_arg,           \* the `options` argument given to new (None or Some)
    pc,                \* position of the caller: "new", "failed", "idle",
                       \* "loop", "wait", "request", "ping", "panicked"
    options,           \* self.options
    input_pin,         \* self.base.input_pin is Some
    output_pin,        \* self.base.output_pin is Some
    level,             \* level last driven on the line by a successful output operation
    since_last_read,   \* what elapsed_since_fn(self.base.last_read_time) reports now
    i,                 \* index of the for loop in read
    last_result,       \* last_result in read
    to_wait,           \* duration given to the pending delay_fn call
    returned,          \* value returned by new or by the latest finished read
    calls,             \* read calls started so far
    attempt_log,       \* results of the attempts of the current read call
    pin_ops,           \* pin operations issued by the current read call
    delays,            \* durations given to delay_fn in the current attempt
    elapsed_seen,      \* elapsed_since_last_read of the current attempt
    since_idle,        \* time since the line last returned to output idle
    pulse_gap,         \* <<since_idle>> when set_low was last called, else <<>>
    rx_seen,           \* the receive phase of the current attempt, as the environment
                       \* played it (None before receive_data runs)
    ack_phase,         \* read_ack: the while loop being run (1, 2, 3), 0 outside read_ack
    ack_counter,       \* read_ack: counter
    ack_elapsed,       \* read_ack: what elapsed_since_fn(start_time) reports now
    ack_result,        \* read_ack: the value returned
    fn_in,             \* the arguments of a function applied on its own (None: none)
    fn_out,            \* the value that function returned (None: not applied yet)
    pair               \* two handles on two pins and the same two handles
                       \* each on its own, as records (<<>>: not in use)

handle_vars == <<sensor, opt_arg, pc, options, input_pin, output_pin, level,
                 since_last_read, i, last_result, to_wait, returned, calls>>
ghost_vars == <<attempt_log, pin_ops, delays, elapsed_seen, since_idle, pulse_gap,
                rx_seen>>
ack_vars == <<ack_phase, ack_counter, ack_elapsed, ack_result>>
fn_vars == <<fn_in, fn_out, pair>>
vars == <<handle_vars, ghost_vars, ack_vars, fn_vars>>

Sensors == {"Dht11", "Dht22"}

SensorMinReadInterval(s) ==
    IF s = "Dht11" THEN MIN_DHT11_READ_INTERVAL ELSE MIN_DHT22_READ_INTERVAL

PingDuration(s) == IF s = "Dht11" THEN DHT11_PING_DURATION ELSE DHT22_PING_DURATION

Options(min_read_interval, max_attempts) ==
    [min_read_interval |-> min_read_interval, max_attempts |-> max_attempts]

DefaultOptions(s) == Options(SensorMinReadInterval(s), 1)

Some(v) == [kind |-> "Some", value |-> v]

\* Arguments offered to new.
IntervalChoices == {999, 1000, 1999, 2000}
OptionArgs ==
    {None} \cup {Some(Options(m, a)) : m \in IntervalChoices, a \in 0..MaxAttempts}

Levels == {"High", "Low"}

AckIdle ==
    /\ ack_phase = 0
    /\ ack_counter = 0
    /\ ack_elapsed = 0
    /\ ack_result = None

FnIdle ==
    /\ fn_in = None
    /\ fn_out = None
    /\ pair = <<>>

Init ==
    /\ sensor \in Sensors
    /\ opt_arg \in OptionArgs
    /\ pc = "new"
    /\ options = None
    /\ input_pin = FALSE
    /\ output_pin = FALSE
    /\ level \in Levels
    /\ since_last_read = 0
    /\ i = 0
    /\ last_result = None
    /\ to_wait = 0
    /\ returned = None
    /\ calls = 0
    /\ attempt_log = <<>>
    /\ pin_ops = <<>>
    /\ delays = <<>>
    /\ elapsed_seen = 0
    /\ since_idle = 0
    /\ pulse_gap = <<>>
    /\ rx_seen = None
    /\ AckIdle
    /\ FnIdle

\* ------------------------------------------------------------------------
\* new
\* ------------------------------------------------------------------------
\* Faulty variant of CheckOptions: accepts max_attempts = 0.
CheckOptions_NoAttemptsCheck(s, arg) ==
    IF arg = None
    THEN Ok(DefaultOptions(s))
    ELSE IF arg.value.min_read_interval < SensorMinReadInterval(s)
         THEN ErrInvalidArgument
         ELSE Ok(arg.value)

\* The options check of new: Err(InvalidArgument) or the options to store.
CheckOptions(s, arg) ==
    IF arg = None
    THEN Ok(DefaultOptions(s))
    ELSE IF arg.value.min_read_interval < SensorMinReadInterval(s)
            \/ arg.value.max_attempts < 1
         THEN ErrInvalidArgument
         ELSE Ok(arg.value)

\* DhtBase::new stores the pin and reads the clock; then the options are checked.
New ==
    /\ pc = "new"
    /\ LET checked == CheckOptions(sensor, opt_arg)
       IN IF IsErr(checked)
          THEN /\ pc' = "failed"
               /\ returned' = checked
               /\ UNCHANGED <<options, output_pin>>
          ELSE /\ pc' = "idle"
               /\ returned' = Ok("handle")
               /\ options' = checked.value
               /\ output_pin' = TRUE
    /\ since_last_read' = 0
    /\ since_idle' = 0
    /\ UNCHANGED <<sensor, opt_arg, input_pin, level, i, last_result, to_wait, calls,
                   attempt_log, pin_ops, delays, elapsed_seen, pulse_gap, rx_seen,
                   ack_vars, fn_vars>>

\* ------------------------------------------------------------------------
\* read
\* ------------------------------------------------------------------------
\* Bounds of the environment's timing.
DelayJitter == 1
IdleStep == 700
MaxIdle == 2800

\* Faulty variant of IsFinal: NoResponse is retried like BadData.
IsFinal_OkOnly(r) == r.kind = "Ok"

\* Faulty variant of IsFinal: BadData ends the call like NoResponse.
IsFinal_BadDataToo(r) == r.kind = "Ok" \/ r.kind = "NoResponse" \/ r.kind = "BadData"

\* The match on an attempt's result in read: Ok and NoResponse return at once.
IsFinal(r) == r.kind = "Ok" \/ r.kind = "NoResponse"

\* Faulty variant of swap_to_output_mode: last_read_time is not refreshed.
swap_to_output_mode_StaleTime(hal_ok, cur_level, cur_since) ==
    IF hal_ok
    THEN [result |-> Ok("unit"), input_pin |-> FALSE, output_pin |-> TRUE,
          level |-> "High", since_last_read |-> cur_since, idle |-> TRUE]
    ELSE [result |-> ErrWrapped("into_output_pin"), input_pin |-> FALSE,
          output_pin |-> FALSE, level |-> cur_level, since_last_read |-> cur_since,
          idle |-> FALSE]

\* swap_to_output_mode: the values of the fields it leaves behind, given
\* whether the HAL accepts the mode switch.
swap_to_output_mode(hal_ok, cur_level, cur_since) ==
    IF hal_ok
    THEN [result |-> Ok("unit"), input_pin |-> FALSE, output_pin |-> TRUE,
          level |-> "High", since_last_read |-> 0, idle |-> TRUE]
    ELSE [result |-> ErrWrapped("into_output_pin"), input_pin |-> FALSE,
          output_pin |-> FALSE, level |-> cur_level, since_last_read |-> cur_since,
          idle |-> FALSE]

\* What receive_data computes from one receive phase when both mode switches
\* succeed, for every phase the environment offers.
SampledAndDecoded(sampled) ==
    IF IsErr(sampled) THEN sampled
    ELSE DecodeFrame(sampled.value.bit_ticks, sampled.value.end_ticks)

ReceiveOutcome ==
    [sample \in Samples |-> SampledAndDecoded(SampleLine(sample))]

\* Faulty variant of receive_data: a failed attempt restores the time of
\* the last read it started with.
receive_data_StampOnOk(sample, in_ok, out_ok, cur_level, cur_since) ==
    IF ~in_ok
    THEN [result |-> ErrWrapped("into_input_pin"), input_pin |-> FALSE,
          output_pin |-> FALSE, level |-> cur_level, since_last_read |-> cur_since,
          idle |-> FALSE]
    ELSE LET swapped == swap_to_output_mode(out_ok, cur_level, cur_since)
         IN IF IsErr(swapped.result) THEN swapped
            ELSE [swapped EXCEPT !.result = ReceiveOutcome[sample],
                                 !.since_last_read =
                                     IF IsErr(ReceiveOutcome[sample])
                                     THEN cur_since ELSE 0]

\* receive_data: the result and the fields it leaves behind.
receive_data(sample, in_ok, out_ok, cur_level, cur_since) ==
    IF ~in_ok
    THEN [result |-> ErrWrapped("into_input_pin"), input_pin |-> FALSE,
          output_pin |-> FALSE, level |-> cur_level, since_last_read |-> cur_since,
          idle |-> FALSE]
    ELSE LET swapped == swap_to_output_mode(out_ok, cur_level, cur_since)
         IN IF IsErr(swapped.result) THEN swapped
            ELSE [swapped EXCEPT !.result = ReceiveOutcome[sample]]

\* Faulty variant of WaitFor: waits the full interval instead of the remainder.
WaitFor_FullInterval(min_read_interval, elapsed_since_last_read) ==
    IF elapsed_since_last_read < min_read_interval
    THEN min_read_interval
    ELSE 0

\* The duration asked of delay_fn before the request, 0 when none is asked.
WaitFor(min_read_interval, elapsed_since_last_read) ==
    IF elapsed_since_last_read < min_read_interval
    THEN min_read_interval - elapsed_since_last_read
    ELSE 0

\* The end of one loop iteration of read with the attempt's result r.
\* Faulty variant of EndAttempt: an error is not kept as the last result.
EndAttempt_KeepsOkOnly(r) ==
    /\ last_result' = IF IsErr(r) THEN last_result ELSE r
    /\ attempt_log' = Append(attempt_log, r)
    /\ IF IsFinal(r)
       THEN /\ pc' = "idle"
            /\ returned' = r
            /\ i' = i
       ELSE /\ pc' = "loop"
            /\ returned' = returned
            /\ i' = i + 1

EndAttempt(r) ==
    /\ last_result' = r
    /\ attempt_log' = Append(attempt_log, r)
    /\ IF IsFinal(r)
       THEN /\ pc' = "idle"
            /\ returned' = r
            /\ i' = i
       ELSE /\ pc' = "loop"
            /\ returned' = returned
            /\ i' = i + 1

\* Faulty variant of ReadCall: the output is driven high on entry.
ReadCall_DrivesHigh ==
    /\ pc = "idle"
    /\ calls < MaxCalls
    /\ pc' = "loop"
    /\ calls' = calls + 1
    /\ i' = 0
    /\ last_result' = None
    /\ returned' = None
    /\ attempt_log' = <<>>
    /\ pin_ops' = <<"set_high">>
    /\ delays' = <<>>
    /\ pulse_gap' = <<>>
    /\ rx_seen' = None
    /\ UNCHANGED <<sensor, opt_arg, options, input_pin, output_pin, level,
                   since_last_read, to_wait, elapsed_seen, since_idle, ack_vars, fn_vars>>

\* A caller starts read on an idle handle.
ReadCall ==
    /\ pc = "idle"
    /\ calls < MaxCalls
    /\ pc' = "loop"
    /\ calls' = calls + 1
    /\ i' = 0
    /\ last_result' = None
    /\ returned' = None
    /\ attempt_log' = <<>>
    /\ pin_ops' = <<>>
    /\ delays' = <<>>
    /\ pulse_gap' = <<>>
    /\ rx_seen' = None
    /\ UNCHANGED <<sensor, opt_arg, options, input_pin, output_pin, level,
                   since_last_read, to_wait, elapsed_seen, since_idle, ack_vars, fn_vars>>

\* Time passes between read calls.
Elapse ==
    /\ pc = "idle"
    /\ since_last_read + IdleStep <= MaxIdle
    /\ since_last_read' = since_last_read + IdleStep
    /\ since_idle' = since_idle + IdleStep
    /\ UNCHANGED <<sensor, opt_arg, pc, options, input_pin, output_pin, level, i,
                   last_result, to_wait, returned, calls, attempt_log, pin_ops, delays,
                   elapsed_seen, pulse_gap, rx_seen, ack_vars, fn_vars>>

\* The for loop has run max_attempts times: return the last result.
ReturnLast ==
    /\ pc = "loop"
    /\ i >= options.max_attempts
    /\ IF last_result # None
       THEN pc' = "idle" /\ returned' = last_result
       ELSE pc' = "panicked" /\ returned' = returned
    /\ UNCHANGED <<sensor, opt_arg, options, input_pin, output_pin, level,
                   since_last_read, i, last_result, to_wait, calls, ghost_vars, ack_vars, fn_vars>>

\* One more iteration: DhtBase::read up to the interval check.  With no output
\* pin it first calls swap_to_output_mode, whose unwrap panics without an
\* input pin.
AttemptBegin ==
    /\ pc = "loop"
    /\ i < options.max_attempts
    /\ \E hal_ok \in BOOLEAN :
         LET swapped == IF output_pin
                        THEN [result |-> Ok("unit"), input_pin |-> input_pin,
                              output_pin |-> output_pin, level |-> level,
                              since_last_read |-> since_last_read, idle |-> FALSE]
                        ELSE swap_to_output_mode(hal_ok, level, since_last_read)
             elapsed_since_last_read == swapped.since_last_read
             wait == WaitFor(options.min_read_interval, elapsed_since_last_read)
         IN IF ~output_pin /\ ~input_pin
            THEN /\ pc' = "panicked"
                 /\ UNCHANGED <<input_pin, output_pin, level, since_last_read, i,
                                last_result, to_wait, returned, attempt_log, pin_ops,
                                delays, elapsed_seen, since_idle>>
            ELSE /\ (output_pin => hal_ok)
                 /\ input_pin' = swapped.input_pin
                 /\ output_pin' = swapped.output_pin
                 /\ level' = swapped.level
                 /\ since_last_read' = swapped.since_last_read
                 /\ since_idle' = IF swapped.idle THEN 0 ELSE since_idle
                 /\ pin_ops' = IF output_pin THEN pin_ops
                               ELSE Append(pin_ops, "into_output_pin")
                 /\ IF IsErr(swapped.result)
                    THEN /\ EndAttempt(swapped.result)
                         /\ UNCHANGED <<to_wait, delays, elapsed_seen>>
                    ELSE /\ elapsed_seen' = elapsed_since_last_read
                         /\ to_wait' = wait
                         /\ delays' = IF wait > 0 THEN <<wait>> ELSE <<>>
                         /\ pc' = IF wait > 0 THEN "wait" ELSE "request"
                         /\ UNCHANGED <<i, last_result, returned, attempt_log>>
    /\ rx_seen' = None
    /\ UNCHANGED <<sensor, opt_arg, options, calls, pulse_gap, ack_vars, fn_vars>>

\* delay_fn(to_wait) resumes after at least to_wait.
WaitDone ==
    /\ pc = "wait"
    /\ \E jitter \in 0..DelayJitter :
         /\ since_last_read' = since_last_read + to_wait + jitter
         /\ since_idle' = since_idle + to_wait + jitter
    /\ pc' = "request"
    /\ UNCHANGED <<sensor, opt_arg, options, input_pin, output_pin, level, i,
                   last_result, to_wait, returned, calls, attempt_log, pin_ops, delays,
                   elapsed_seen, pulse_gap, rx_seen, ack_vars, fn_vars>>

\* The caller drops the future of read while delay_fn(to_wait) is pending:
\* nothing more of the call runs and nothing is returned.
CancelInWait ==
    /\ pc = "wait"
    /\ pc' = "idle"
    /\ UNCHANGED <<sensor, opt_arg, options, input_pin, output_pin, level,
                   since_last_read, i, last_result, to_wait, returned, calls,
                   ghost_vars, ack_vars, fn_vars>>

\* request_data: set_low, then delay_fn(ping_duration).
RequestData ==
    /\ pc = "request"
    /\ pulse_gap' = <<since_idle>>
    /\ \E hal_ok \in BOOLEAN :
         IF hal_ok
         THEN /\ level' = "Low"
              /\ pin_ops' = Append(pin_ops, "set_low")
              /\ delays' = Append(delays, PingDuration(sensor))
              /\ pc' = "ping"
              /\ UNCHANGED <<i, last_result, returned, attempt_log>>
         ELSE /\ pin_ops' = Append(pin_ops, "set_low failed")
              /\ EndAttempt(ErrWrapped("set_low"))
              /\ UNCHANGED <<level, delays>>
    /\ UNCHANGED <<sensor, opt_arg, options, input_pin, output_pin, since_last_read,
                   to_wait, calls, elapsed_seen, since_idle, rx_seen, ack_vars, fn_vars>>

\* delay_fn(ping_duration) resumes; receive_data runs; the response is
\* validated and the loop of read matches on the result.
ReceiveData ==
    /\ pc = "ping"
    /\ \E sample \in Samples, in_ok \in BOOLEAN, out_ok \in BOOLEAN :
         \E received \in {receive_data(sample, in_ok, out_ok, level,
                                        since_last_read + PingDuration(sensor))} :
         \E result \in {IF IsErr(received.result)
                         THEN received.result
                         ELSE ValidateResponse(sensor, received.result.value)} :
            /\ (~in_ok => out_ok)
            /\ input_pin' = received.input_pin
            /\ output_pin' = received.output_pin
            /\ level' = received.level
            /\ since_last_read' = received.since_last_read
            /\ since_idle' = IF received.idle THEN 0
                             ELSE since_idle + PingDuration(sensor)
            /\ pin_ops' = pin_ops \o
                    (IF ~in_ok THEN <<"into_input_pin failed">>
                     ELSE IF ~out_ok THEN <<"into_input_pin", "into_output_pin failed">>
                     ELSE <<"into_input_pin", "into_output_pin">>)
            /\ rx_seen' = [sample |-> sample, in_ok |-> in_ok, out_ok |-> out_ok]
            /\ EndAttempt(result)
    /\ UNCHANGED <<sensor, opt_arg, options, to_wait, calls, delays, elapsed_seen,
                   pulse_gap, ack_vars, fn_vars>>

ReadNext ==
    \/ New
    \/ ReadCall
    \/ Elapse
    \/ AttemptBegin
    \/ WaitDone
    \/ CancelInWait
    \/ RequestData
    \/ ReceiveData
    \/ ReturnLast

Next == ReadNext

Spec == Init /\ [][Next]_vars

\* ------------------------------------------------------------------------
\* read_ack, poll by poll
\* ------------------------------------------------------------------------
\* What one is_high()/is_low() call can give: the line's level or a HAL error.
PinReads == {"High", "Low", "Error"}

\* Faulty variant of WatchdogFires: fires at exactly TIMEOUT.
WatchdogFires_AtTimeout(counter, elapsed) ==
    counter % WATCHDOG_COUNTS = 0 /\ elapsed >= TIMEOUT

\* The watchdog test made when the counter reaches a multiple of
\* WATCHDOG_COUNTS: has more than TIMEOUT elapsed since start_time?
WatchdogFires(counter, elapsed) ==
    counter % WATCHDOG_COUNTS = 0 /\ elapsed > TIMEOUT

InitAck ==
    /\ sensor = "Dht11"
    /\ opt_arg = None
    /\ pc = "read_ack"
    /\ options = DefaultOptions("Dht11")
    /\ input_pin = TRUE
    /\ output_pin = FALSE
    /\ level = "Low"
    /\ since_last_read = 0
    /\ i = 0
    /\ last_result = None
    /\ to_wait = 0
    /\ returned = None
    /\ calls = 1
    /\ attempt_log = <<>>
    /\ pin_ops = <<>>
    /\ delays = <<>>
    /\ elapsed_seen = 0
    /\ since_idle = 0
    /\ pulse_gap = <<>>
    /\ rx_seen = None
    /\ ack_phase = 1
    /\ ack_counter = 0
    /\ ack_elapsed = 0
    /\ ack_result = None
    /\ FnIdle

\* The injected clock advances while read_ack polls.
AckClockTick ==
    /\ pc = "read_ack"
    /\ ack_result = None
    /\ ack_elapsed < MaxAckElapsed
    /\ ack_elapsed' = ack_elapsed + 1
    /\ UNCHANGED <<handle_vars, ghost_vars, fn_vars, ack_phase, ack_counter, ack_result>>

\* One evaluation of the condition of the first or second while loop, and of
\* the loop body when the condition holds.
AckWatchedPoll ==
    /\ pc = "read_ack"
    /\ ack_result = None
    /\ ack_phase \in {1, 2}
    /\ ack_counter < MaxAckPolls
    /\ \E read \in PinReads :
         LET stays == IF ack_phase = 1 THEN read = "High" ELSE read = "Low"
         IN IF read = "Error"
            THEN /\ ack_result' = ErrWrapped(IF ack_phase = 1 THEN "is_high" ELSE "is_low")
                 /\ UNCHANGED <<ack_phase, ack_counter>>
            ELSE IF stays
            THEN /\ ack_counter' = ack_counter + 1
                 /\ ack_result' = IF WatchdogFires(ack_counter + 1, ack_elapsed)
                                  THEN ErrNoResponse ELSE None
                 /\ UNCHANGED ack_phase
            ELSE /\ ack_phase' = ack_phase + 1
                 /\ UNCHANGED <<ack_counter, ack_result>>
    /\ UNCHANGED <<handle_vars, ghost_vars, fn_vars, ack_elapsed>>

\* One evaluation of the condition of the third while loop, and of its body.
AckLastPoll ==
    /\ pc = "read_ack"
    /\ ack_result = None
    /\ ack_phase = 3
    /\ ack_counter < MaxAckPolls
    /\ \E read \in PinReads :
         IF read = "Error"
         THEN ack_result' = ErrWrapped("is_high") /\ UNCHANGED ack_counter
         ELSE IF read = "High"
         THEN ack_counter' = ack_counter + 1 /\ UNCHANGED ack_result
         ELSE ack_result' = Ok(ack_counter) /\ UNCHANGED ack_counter
    /\ UNCHANGED <<handle_vars, ghost_vars, fn_vars, ack_phase, ack_elapsed>>

\* The third while loop run to its end in one step: the line reads high
\* ShiftModulus more times and then low.  The loop body only increments the
\* counter, so the polls in between have no other effect.
AckLastRun ==
    /\ pc = "read_ack"
    /\ ack_result = None
    /\ ack_phase = 3
    /\ ack_counter < MaxAckPolls
    /\ ack_counter' = ack_counter + ShiftModulus
    /\ ack_result' = Ok(ack_counter + ShiftModulus)
    /\ UNCHANGED <<handle_vars, ghost_vars, fn_vars, ack_phase, ack_elapsed>>

AckNext ==
    \/ AckClockTick
    \/ AckWatchedPoll
    \/ AckLastPoll
    \/ AckLastRun

SpecAck == InitAck /\ [][AckNext]_vars

\* ------------------------------------------------------------------------
\* Functions applied on their own
\* ------------------------------------------------------------------------
\* Poll counts of the high phase of a pulse, for a 0 bit and for a 1 bit, at
\* even and at odd bit positions (the low phase lasts 2 polls).
Timing(zero, one) == [zero |-> zero, one |-> one]

\* The pulses of create_data_vec.
IdealTiming == Timing(<<2, 2>>, <<3, 3>>)

\* Pulse k (1..40) of a frame sent with the given timing.
TimedPulse(bytes, timing, k) ==
    LET bit == BitOf(bytes[((k - 1) \div 8) + 1], (k - 1) % 8)
        widths == IF bit = 1 THEN timing.one ELSE timing.zero
    IN [low |-> ShortPulse.low, high |-> widths[(k % 2) + 1]]

TimedTrain(bytes, timing) ==
    IF timing = IdealTiming
    THEN create_data_vec(bytes)
    ELSE Tabulate([k \in 1..NumBits |-> TimedPulse(bytes, timing, k)])

\* DhtBase::read from receive_data on, with a HAL that accepts both mode
\* switches and reports no error: the result of the attempt.
ReadFrame(s, ack, train, end_low) ==
    LET received == SampledAndDecoded(SampleTrain(ack, train, end_low, 0))
    IN IF IsErr(received) THEN received ELSE ValidateResponse(s, received.value)

Checksum(b) == (b[1] + b[2] + b[3] + b[4]) % 256

WithChecksum(b) == <<b[1], b[2], b[3], b[4], Checksum(b)>>

\* bytes with bit k (0..31, most significant bit of byte 0 first) inverted.
FlipBit(bytes, k) ==
    LET n == (k \div 8) + 1
        weight == Pow2(7 - (k % 8))
    IN [bytes EXCEPT ![n] = IF BitOf(bytes[n], k % 8) = 1 THEN @ - weight ELSE @ + weight]

\* Checksum-valid frames whose payload bits are then flipped one at a time.
BaseFrames ==
    { <<0, 0, 0, 0, 0>>, <<1, 2, 0, 3, 6>>, <<17, 0, 15, 0, 32>>,
      <<1, 0, 129, 1, 131>>, <<255, 255, 255, 255, 252>> }

FlippedFrames == {FlipBit(b, k) : b \in BaseFrames, k \in 0..31}

\* A frame read by one attempt: the sensor type, the bytes sent and the
\* timing of the pulses.
FrameInput(s, bytes, timing) ==
    [fn |-> "read", sensor |-> s, bytes |-> bytes, timing |-> timing]

\* Checksum-valid frames around the limits of Dht11Response::is_valid.
Dht11Frames ==
    {WithChecksum(<<h, hd, t, td>>) :
        h \in {0, 50, 99, 100, 101, 255}, hd \in {0, 9, 10},
        t \in {0, 74, 75, 76}, td \in {0, 9, 10}}

\* Values of humidity_x10 and temperature_x10 around the limits of
\* Dht22Response::is_valid (32768 is the sign bit).
Dht22Humidities == {0, 1000, 1001}
Dht22Temperatures ==
    {0, 257, 599, 600, 601, 1499, 1500, 1501, 32768, 32768 + 257, 32768 + 599,
     32768 + 600, 32768 + 601, 65535}

Dht22Responses ==
    {[humidity_x10 |-> h, temperature_x10 |-> t] : h \in Dht22Humidities, t \in Dht22Temperatures}

\* The payload bytes a DHT22 sends for a response.
Dht22Payload(r) ==
    <<r.humidity_x10 \div 256, r.humidity_x10 % 256,
      r.temperature_x10 \div 256, r.temperature_x10 % 256>>

Dht22Frames == {WithChecksum(Dht22Payload(r)) : r \in Dht22Responses}

\* Calls of Dht22Response::is_valid and of from_raw_bytes followed by
\* get_temperature.
IsValidInputs == {[fn |-> "is_valid", response |-> r] : r \in Dht22Responses}

GetTemperatureInputs ==
    {[fn |-> "get_temperature", bytes |-> <<0, 0, hi, lo>>] :
        hi \in {0, 1, 127, 128, 129, 255}, lo \in {0, 1, 255}}

\* The value returned by a function that does not return a Result.
Returned(v) == [kind |-> "Returned", value |-> v]

\* ------------------------------------------------------------------------
\* ds18b20: reset
\* ------------------------------------------------------------------------
RESET_TIME_US == 480
FIRST_PRESENCE_PULSE_DELAY_US == 30
SECOND_PRESENCE_PULSE_DELAY_US == 30
POST_PRESENCE_PULSE_DELAY_US ==
    RESET_TIME_US - FIRST_PRESENCE_PULSE_DELAY_US - SECOND_PRESENCE_PULSE_DELAY_US

ErrNoSensorsFound == [kind |-> "NoSensorsFound"]
ErrWrappedDelay == [kind |-> "WrappedDelay"]
ErrWrappedIo == [kind |-> "WrappedIo"]
ErrWrappedInput == [kind |-> "WrappedInput"]
ErrWrappedOutput == [kind |-> "WrappedOutput"]

\* One call made on the pin or on the delay provider.
PinOp(name) == [op |-> name]
DelayUs(us) == [op |-> "delay_us", us |-> us]

\* The calls reset makes when none fails and a sensor is present, in order,
\* and the error each gives when it fails.
ResetOps ==
    << PinOp("into_output_pin(Low)"), DelayUs(RESET_TIME_US), PinOp("set_high"),
       PinOp("into_input_pin"), DelayUs(FIRST_PRESENCE_PULSE_DELAY_US), PinOp("is_low"),
       DelayUs(FIRST_PRESENCE_PULSE_DELAY_US), PinOp("is_low"),
       DelayUs(POST_PRESENCE_PULSE_DELAY_US) >>

ResetErrors ==
    << ErrWrappedIo, ErrWrappedDelay, ErrWrappedOutput, ErrWrappedIo, ErrWrappedDelay,
       ErrWrappedInput, ErrWrappedDelay, ErrWrappedInput, ErrWrappedDelay >>

\* Faulty variant of IsPresent: both samples must show the presence pulse.
IsPresent_BothSamples(first, second) == first = "Low" /\ second = "Low"

\* is_present after the two samples of the line.
IsPresent(first, second) == first = "Low" \/ second = "Low"

\* reset on a line that reads `first` and then `second` at the two samples;
\* fail_at is the position in ResetOps of the call that fails (0: none).  The
\* result, and the calls made up to the return.
reset(fail_at, first, second) ==
    IF fail_at \in 1..8
    THEN [result |-> ResetErrors[fail_at], ops |-> SubSeq(ResetOps, 1, fail_at)]
    ELSE IF ~IsPresent(first, second)
    THEN [result |-> ErrNoSensorsFound, ops |-> SubSeq(ResetOps, 1, 8)]
    ELSE IF fail_at = 9
    THEN [result |-> ErrWrappedDelay, ops |-> ResetOps]
    ELSE [result |-> Ok("input pin"), ops |-> ResetOps]

ResetInputs ==
    {[fn |-> "reset", fail_at |-> f, first |-> a, second |-> b] :
        f \in 0..9, a \in Levels, b \in Levels}

\* ------------------------------------------------------------------------
\* ds18b20: fixed-width integers
\* ------------------------------------------------------------------------
\* The bit pattern of a signed integer of w bits, and back.
ToUnsigned(v, w) == IF v < 0 THEN v + 2^w ELSE v
ToSigned(u, w) == IF u >= 2^(w - 1) THEN u - 2^w ELSE u

\* a | b on signed integers of w bits.
BitOr(a, b, w) ==
    LET ua == ToUnsigned(a, w)
        ub == ToUnsigned(b, w)
        acc[j \in 0..w] ==
            IF j = 0 THEN 0
            ELSE acc[j - 1]
                 + (IF (ua \div 2^(j - 1)) % 2 = 1 \/ (ub \div 2^(j - 1)) % 2 = 1
                    THEN 2^(j - 1) ELSE 0)
    IN ToSigned(acc[w], w)

\* v << n on a signed integer of w bits.
Shl(v, n, w) == ToSigned((ToUnsigned(v, w) * 2^n) % 2^w, w)

\* A u64 is the sequence of its eight bytes, least significant first.
\* a.wrapping_mul(b): the low 64 bits of the product, by columns with carry.
wrapping_mul(a, b) ==
    LET column(k) ==
            LET sum[j \in 0..k] ==
                    IF j = 0 THEN 0 ELSE sum[j - 1] + a[j] * b[k + 1 - j]
            IN sum[k]
        carry[k \in 0..8] ==
            IF k = 0 THEN 0 ELSE (column(k) + carry[k - 1]) \div 256
    IN Tabulate([k \in 1..8 |-> (column(k) + carry[k - 1]) % 256])

\* a.wrapping_add(b)
wrapping_add(a, b) ==
    LET carry[k \in 0..8] ==
            IF k = 0 THEN 0 ELSE (a[k] + b[k] + carry[k - 1]) \div 256
    IN Tabulate([k \in 1..8 |-> (a[k] + b[k] + carry[k - 1]) % 256])

\* The u64 of a value that fits one byte.
U64(v) == <<v, 0, 0, 0, 0, 0, 0, 0>>

\* ------------------------------------------------------------------------
\* ds18b20: compute_crc, Temperature::from_bytes, read_temperature
\* ------------------------------------------------------------------------
compute_crc(x) ==
    LET x4 == wrapping_mul(wrapping_mul(wrapping_mul(x, x), x), x)
        x5 == wrapping_mul(x4, x)
        x8 == wrapping_mul(wrapping_mul(wrapping_mul(x5, x), x), x)
    IN wrapping_add(wrapping_add(wrapping_add(x8, x5), x4), U64(1))[1]

Temperature(integer, decimal) == [integer |-> integer, decimal |-> decimal]

\* Faulty variant of Temperature_from_bytes: a negative value keeps the
\* integer part of the shifted register.
Temperature_from_bytes_NoAdjust(low_sig, high_sig) ==
    IF high_sig > 127
    THEN LET signed_high_sig == BitOr(0 - 256, high_sig, 16)
         IN Temperature(BitOr(Shl(signed_high_sig, 4, 16), low_sig \div 16, 16),
                        BitOr(0 - 16, low_sig % 16, 8))
    ELSE Temperature(BitOr(Shl(high_sig, 4, 16), low_sig \div 16, 16), low_sig % 16)

\* Faulty variant of Temperature_from_bytes: the decimal part of a negative
\* register is not sign-extended.
Temperature_from_bytes_UnsignedDecimal(low_sig, high_sig) ==
    IF high_sig > 127
    THEN LET signed_high_sig == BitOr(0 - 256, high_sig, 16)
         IN Temperature(BitOr(Shl(signed_high_sig, 4, 16), low_sig \div 16, 16) + 1,
                        low_sig % 16)
    ELSE Temperature(BitOr(Shl(high_sig, 4, 16), low_sig \div 16, 16), low_sig % 16)

Temperature_from_bytes(low_sig, high_sig) ==
    IF high_sig > 127
    THEN LET signed_high_sig == BitOr(0 - 256, high_sig, 16)
         IN Temperature(BitOr(Shl(signed_high_sig, 4, 16), low_sig \div 16, 16) + 1,
                        BitOr(0 - 16, low_sig % 16, 8))
    ELSE Temperature(BitOr(Shl(high_sig, 4, 16), low_sig \div 16, 16), low_sig % 16)

\* Temperature::nearest_integer, in i8 and i16 arithmetic (no operand
\* leaves its range: decimal lies in -16..15).
Temperature_nearest_integer(t) ==
    LET signum == IF t.decimal > 0 THEN 1 ELSE IF t.decimal < 0 THEN 0 - 1 ELSE 0
        abs == IF t.decimal < 0 THEN 0 - t.decimal ELSE t.decimal
    IN t.integer + signum * (abs \div 8)

\* x as read_temperature assembles it from data[0..8]: the shifted bytes do
\* not overlap, so the sum places each byte.
ScratchpadX(data) == SubSeq(data, 1, 8)

\* read_temperature once the nine bytes of the scratchpad have been read
\* (every call on the pin and the delay having succeeded).
ScratchpadResult(data) ==
    IF compute_crc(ScratchpadX(data)) # data[9]
    THEN ErrBadData
    ELSE Ok(Temperature_from_bytes(data[1], data[2]))

\* ------------------------------------------------------------------------
\* ds18b20: read_temperature on the bus
\* ------------------------------------------------------------------------
\* RomCommand::Skip, FunctionCommand::ConvertTemperature and ::ReadScratchpad.
Skip == 204
ConvertTemperature == 68
ReadScratchpad == 190

\* Conversion times in microseconds.
CONVERSION_TIME_9BIT == 93750
CONVERSION_TIME_10BIT == 187500
CONVERSION_TIME_11BIT == 375000
CONVERSION_TIME_12BIT == 750000

ResolutionModes == {"NineBit", "TenBit", "ElevenBit", "TwelveBit"}

get_conversion_time(mode) ==
    IF mode = "NineBit" THEN CONVERSION_TIME_9BIT
    ELSE IF mode = "TenBit" THEN CONVERSION_TIME_10BIT
    ELSE IF mode = "ElevenBit" THEN CONVERSION_TIME_11BIT
    ELSE CONVERSION_TIME_12BIT

\* The calls of read_temperature that act on the bus.
BusReset == [op |-> "reset"]
BusWrite(byte) == [op |-> "write_byte", byte |-> byte]
BusRead == [op |-> "read_byte"]

\* Faulty variant of ReadTemperatureOps: the scratchpad is read without a
\* second initialisation.
ReadTemperatureOps_NoSecondReset ==
    <<BusReset, BusWrite(Skip), BusWrite(ConvertTemperature),
      DelayUs(CONVERSION_TIME_12BIT), BusWrite(Skip), BusWrite(ReadScratchpad)>>
    \o [k \in 1..9 |-> BusRead]

\* The calls read_temperature makes up to the last read_byte, in order.
ReadTemperatureOps ==
    <<BusReset, BusWrite(Skip), BusWrite(ConvertTemperature),
      DelayUs(CONVERSION_TIME_12BIT),
      BusReset, BusWrite(Skip), BusWrite(ReadScratchpad)>>
    \o [k \in 1..9 |-> BusRead]

\* read_temperature on a bus whose fail_at-th call returns `error` (0: none
\* does; one past the last: the final into_output_pin does) and whose sensor
\* sends the scratchpad `data`: the result, and the calls made.
read_temperature(fail_at, error, data) ==
    IF fail_at \in 1..Len(ReadTemperatureOps)
    THEN [result |-> error, ops |-> SubSeq(ReadTemperatureOps, 1, fail_at)]
    ELSE [result |-> IF IsErr(ScratchpadResult(data)) \/ fail_at = 0
                     THEN ScratchpadResult(data) ELSE ErrWrappedIo,
          ops |-> ReadTemperatureOps]

\* ------------------------------------------------------------------------
\* ds18b20: bytes on the bus
\* ------------------------------------------------------------------------
READ_WRITE_RECOVERY_TIME_US == 1
MIN_READ_WRITE_DURATION_US == 60
WRITE_1_DURATION_US == 1
WRITE_1_POST_BIT_DELAY_US == MIN_READ_WRITE_DURATION_US - WRITE_1_DURATION_US
WRITE_0_DURATION_US == 60
READ_REQUEST_DURATION_US == 1
READ_SAMPLE_DELAY_US == 15 - READ_REQUEST_DURATION_US
READ_POST_SAMPLE_DELAY_US == MIN_READ_WRITE_DURATION_US - READ_SAMPLE_DELAY_US

\* write_bit: the calls of one write slot.
write_bit(bit) ==
    << PinOp("into_output_pin(High)"), DelayUs(READ_WRITE_RECOVERY_TIME_US),
       PinOp("set_low"),
       DelayUs(IF bit = 0 THEN WRITE_0_DURATION_US ELSE WRITE_1_DURATION_US),
       PinOp("set_high") >>
    \o (IF bit # 0 THEN <<DelayUs(WRITE_1_POST_BIT_DELAY_US)>> ELSE <<>>)

\* write_byte: the eight write slots, in the order they are issued (byte & 1
\* is written, then byte >>= 1).
write_byte(byte) ==
    [j \in 1..8 |-> write_bit((byte \div Pow2(j - 1)) % 2)]

\* read_bit on a line that is at `sampled` when is_high is called: the bit
\* and the calls of the read slot.
read_bit(sampled) ==
    [data |-> sampled = "High",
     ops |-> << PinOp("into_output_pin(High)"), DelayUs(READ_WRITE_RECOVERY_TIME_US),
                PinOp("set_low"), DelayUs(READ_REQUEST_DURATION_US), PinOp("set_high"),
                PinOp("into_input_pin"), DelayUs(READ_SAMPLE_DELAY_US), PinOp("is_high"),
                PinOp("into_output_pin(High)"), DelayUs(READ_POST_SAMPLE_DELAY_US) >>]

\* Faulty variant of ReadByteTerm: the first slot fills the top bit.
ReadByteTerm_MsbFirst(sampled, bit) ==
    (IF read_bit(sampled[bit + 1]).data THEN 1 ELSE 0) * Pow2(7 - bit)

\* (result.data as u8) << bit for the read slot numbered bit (0..7).
ReadByteTerm(sampled, bit) ==
    (IF read_bit(sampled[bit + 1]).data THEN 1 ELSE 0) * Pow2(bit)

\* read_byte over eight read slots in which the line is at sampled[1..8].
read_byte(sampled) ==
    ( ReadByteTerm(sampled, 0) + ReadByteTerm(sampled, 1) + ReadByteTerm(sampled, 2)
      + ReadByteTerm(sampled, 3) + ReadByteTerm(sampled, 4) + ReadByteTerm(sampled, 5)
      + ReadByteTerm(sampled, 6) + ReadByteTerm(sampled, 7) ) % 256

\* The level a device that repeats a write slot in a read slot holds the
\* line at when the controller samples, READ_REQUEST_DURATION_US +
\* READ_SAMPLE_DELAY_US after the falling edge: low if the write slot held
\* the line low for that long.
EchoedLevel(slot) ==
    IF slot[4].us >= READ_REQUEST_DURATION_US + READ_SAMPLE_DELAY_US
    THEN "Low" ELSE "High"

\* Scratchpads: bytes 0..7 as a sensor may send them.
ScratchpadData ==
    { <<0, 0, 0, 0, 0, 0, 0, 0>>,
      <<80, 5, 75, 70, 127, 255, 12, 16>>,
      <<110, 254, 75, 70, 127, 255, 2, 16>>,
      <<145, 1, 75, 70, 127, 255, 15, 16>>,
      <<255, 255, 255, 255, 255, 255, 255, 255>> }

ScratchpadCrcs == {0, 1, 2, 28, 37, 119, 148, 201, 241, 255}

ScratchpadInputs ==
    {[fn |-> "read_temperature", data |-> d \o <<c>>] :
        d \in ScratchpadData, c \in ScratchpadCrcs}

RegisterHighs == {0, 1, 18, 127, 128, 252, 254, 255}

FromBytesInputs ==
    {[fn |-> "from_bytes", low_sig |-> l, high_sig |-> h] :
        l \in 0..255, h \in RegisterHighs}

\* ------------------------------------------------------------------------
\* mcp300x
\* ------------------------------------------------------------------------
NUM_CHANNELS_MCP3004 == 4
NUM_CHANNELS_MCP3008 == 8
\* DifferentialMode::ThreeMinusTwo as u8
MAX_DIFFERENTIAL_MODE_MCP3004 == 3

SingleEnded(channel) == [kind |-> "SingleEnded", channel |-> channel]
Differential(mode) == [kind |-> "Differential", mode |-> mode]

\* Faulty variant of to_bits: the single-ended flag is left out.
to_bits_NoSingleEndedFlag(request) ==
    IF request.kind = "SingleEnded" THEN request.channel ELSE request.mode

to_bits(request) ==
    IF request.kind = "SingleEnded"
    THEN BitOr(8, request.channel, 16)
    ELSE request.mode

\* Faulty variant of is_arg_invalid: channel NUM_CHANNELS is let through.
is_arg_invalid_OffByOne(device, request) ==
    IF device = "mcp3004"
    THEN IF request.kind = "SingleEnded"
         THEN request.channel > NUM_CHANNELS_MCP3004
         ELSE request.mode > MAX_DIFFERENTIAL_MODE_MCP3004
    ELSE IF request.kind = "SingleEnded"
         THEN request.channel > NUM_CHANNELS_MCP3008
         ELSE FALSE

\* The $is_arg_invalid closures of read_mcp3004 and read_mcp3008.
is_arg_invalid(device, request) ==
    IF device = "mcp3004"
    THEN IF request.kind = "SingleEnded"
         THEN request.channel >= NUM_CHANNELS_MCP3004
         ELSE request.mode > MAX_DIFFERENTIAL_MODE_MCP3004
    ELSE IF request.kind = "SingleEnded"
         THEN request.channel >= NUM_CHANNELS_MCP3008
         ELSE FALSE

\* read: the result and the buffers handed to spi.transfer.  spi is what the
\* transfer does: it fails, or it returns the bytes rx.
mcp300x_read(request, spi) ==
    LET tx_buf == <<1, (to_bits(request) * 16) % 256, 0>>
        rx == spi.rx
    IN [transfers |-> <<tx_buf>>,
        result |-> IF ~spi.ok THEN ErrWrapped("transfer")
                   ELSE IF (rx[2] \div 4) % 2 # 0 THEN ErrBadData
                   ELSE Ok((rx[2] % 4) * 256 + rx[3])]

\* read_mcp3004 and read_mcp3008
read_mcp300x(device, request, spi) ==
    IF is_arg_invalid(device, request)
    THEN [transfers |-> <<>>, result |-> ErrInvalidArgument]
    ELSE mcp300x_read(request, spi)

McpInputs ==
    {[fn |-> "read_mcp300x", device |-> d, request |-> r, spi |-> o] :
        d \in {"mcp3004", "mcp3008"},
        r \in {SingleEnded(c) : c \in 0..9} \cup {Differential(k) : k \in 0..7},
        o \in {[ok |-> FALSE, rx |-> <<>>]}
               \cup {[ok |-> TRUE, rx |-> <<a, b, c>>] :
                        a \in {0, 255},
                        b \in {0, 1, 2, 3, 4, 7, 8, 248, 251, 252, 255},
                        c \in {0, 1, 68, 255}}}

\* The u32 2^31 + n: the count of a pulse of 2^31 + n polls.
Above31(n) == n - I32_MAX - 1

\* Frames for determine_tick_threshold on its own: five tick counts, each
\* taken by a multiple of 8 of the bit_ticks; ProfileUnits multiples in all.
ProfileUnits == 5

ThresholdInputs ==
    LET profiles == {c \in [1..5 -> 0..ProfileUnits] :
                        c[1] + c[2] + c[3] + c[4] + c[5] = ProfileUnits}
        upto(c, j) == IF j = 0 THEN 0
                      ELSE IF j = 1 THEN 8 * c[1]
                      ELSE IF j = 2 THEN 8 * (c[1] + c[2])
                      ELSE IF j = 3 THEN 8 * (c[1] + c[2] + c[3])
                      ELSE IF j = 4 THEN 8 * (c[1] + c[2] + c[3] + c[4])
                      ELSE 8 * ProfileUnits
        ticks(values, c) ==
            [k \in 1..(8 * ProfileUnits) |->
                values[CHOOSE j \in 1..5 : upto(c, j - 1) < k /\ k <= upto(c, j)]]
    IN {[fn |-> "determine_tick_threshold", bit_ticks |-> ticks(v, c)] :
            v \in {<<3, 4, 5, 8, 12>>, <<3, 5, 7, 20, 43>>, <<4, 6, 7, 9, 10>>},
            c \in profiles}
       \cup {[fn |-> "determine_tick_threshold, counts near 2^31",
              bit_ticks |-> ticks(v, c)] :
            v \in {<<I32_MAX - 40, I32_MAX - 38, I32_MAX - 36, I32_MAX - 23, I32_MAX>>,
                   <<I32_MAX - 4, I32_MAX - 2, I32_MAX, Above31(5), Above31(9)>>,
                   <<Above31(3), Above31(4), Above31(5), Above31(8), Above31(12)>>,
                   <<Above31(3), Above31(5), Above31(7), Above31(20), Above31(43)>>},
            c \in profiles}

\* Largest number of polls of one level, and largest timeout, offered to
\* read_bit_with_timeout on its own.
MaxBitPolls == 6

\* Largest number of polls of the high phase of a 0 bit in a frame whose
\* pulses all last the same.
MaxUniformHigh == 5

\* Timings whose 0-bit pulses all last the same.
UniformTimings == {Timing(<<w, w>>, <<w + 5, w + 5>>) : w \in 1..MaxUniformHigh}

FrameInputs ==
    {FrameInput(s, b, IdealTiming) :
        s \in Sensors, b \in BaseFrames \cup FlippedFrames \cup {<<255, 255, 255, 255, 255>>}}
    \cup {FrameInput(s, <<0, 0, 0, 0, 0>>, t) : s \in Sensors, t \in UniformTimings}
    \cup {FrameInput("Dht11", b, IdealTiming) : b \in Dht11Frames}
    \cup {FrameInput("Dht22", b, IdealTiming) : b \in Dht22Frames}

\* Pulses with a wider gap between the two kinds of bit: 4 and 9 polls.
WideTiming == Timing(<<2, 2>>, <<7, 7>>)

\* WideTiming with every pulse one poll longer or shorter.
PerturbedTimings ==
    {Timing(<<2 + a, 2 + b>>, <<7 + c, 7 + d>>) : a, b, c, d \in {-1, 1}}

Payloads ==
    { <<0, 0, 0, 0>>, <<1, 2, 0, 3>>, <<17, 4, 15, 0>>, <<170, 85, 204, 51>>,
      <<255, 255, 255, 255>> }

\* receive_data on a checksum-valid frame sent with the given timing.
ReceiveInput(payload, timing) ==
    [fn |-> "receive_data", bytes |-> WithChecksum(payload), timing |-> timing]

ReceiveInputs ==
    {ReceiveInput(b, t) : b \in Payloads, t \in {IdealTiming, WideTiming} \cup PerturbedTimings}

FnInputs ==
    FrameInputs \cup ReceiveInputs \cup IsValidInputs \cup GetTemperatureInputs
    \cup ResetInputs \cup ScratchpadInputs \cup FromBytesInputs \cup McpInputs
    \cup ThresholdInputs
    \cup {[fn |-> "read_bit_with_timeout", pulse |-> [low |-> l, high |-> h],
            timeout |-> t, hal_error |-> e] :
            l \in 0..MaxBitPolls, h \in 0..MaxBitPolls, t \in 0..MaxBitPolls,
            e \in BOOLEAN}
    \cup {[fn |-> "nearest_integer", low_sig |-> l, high_sig |-> h] :
            l \in 0..255, h \in RegisterHighs}
    \cup {[fn |-> "write_byte, read_byte", byte |-> b] : b \in 0..255}
    \cup {[fn |-> "read_temperature on the bus", fail_at |-> f, error |-> e,
            data |-> d] :
            f \in 0..17,
            e \in {ErrNoSensorsFound, ErrWrappedDelay, ErrWrappedIo, ErrWrappedInput,
                   ErrWrappedOutput},
            d \in {<<80, 5, 75, 70, 127, 255, 12, 16, 1>>,
                   <<80, 5, 75, 70, 127, 255, 12, 16, 28>>,
                   <<145, 1, 75, 70, 127, 255, 15, 16, 148>>}}
    \cup {[fn |-> "parse_byte", from |-> 8 * n, threshold |-> 4,
            bit_ticks |-> IF n = 0 THEN t \o <<5, 3, 4, 5, 3, 4, 5, 3>>
                          ELSE <<5, 3, 4, 5, 3, 4, 5, 3>> \o t] :
            n \in 0..1, t \in [1..8 -> {3, 4, 5}]}

InitFn ==
    /\ sensor = "Dht11"
    /\ opt_arg = None
    /\ pc = "fn"
    /\ options = None
    /\ input_pin = FALSE
    /\ output_pin = FALSE
    /\ level = "High"
    /\ since_last_read = 0
    /\ i = 0
    /\ last_result = None
    /\ to_wait = 0
    /\ returned = None
    /\ calls = 0
    /\ attempt_log = <<>>
    /\ pin_ops = <<>>
    /\ delays = <<>>
    /\ elapsed_seen = 0
    /\ since_idle = 0
    /\ pulse_gap = <<>>
    /\ rx_seen = None
    /\ AckIdle
    /\ fn_in \in FnInputs
    /\ fn_out = None
    /\ pair = <<>>

\* One attempt on the frame fn_in: full ACK (4 polls), the frame, a short end pulse.
ApplyReadFrame ==
    /\ pc = "fn"
    /\ fn_in.fn = "read"
    /\ fn_out = None
    /\ fn_out' = ReadFrame(fn_in.sensor, Ok(4), TimedTrain(fn_in.bytes, fn_in.timing),
                           EndPulseLow)
    /\ UNCHANGED <<handle_vars, ghost_vars, ack_vars, fn_in, pair>>

\* receive_data on the frame fn_in, with a HAL that accepts both mode switches.
ApplyReceiveData ==
    /\ pc = "fn"
    /\ fn_in.fn = "receive_data"
    /\ fn_out = None
    /\ fn_out' = SampledAndDecoded(
                    SampleTrain(Ok(4), TimedTrain(fn_in.bytes, fn_in.timing), EndPulseLow, 0))
    /\ UNCHANGED <<handle_vars, ghost_vars, ack_vars, fn_in, pair>>

ApplyIsValid ==
    /\ pc = "fn"
    /\ fn_in.fn = "is_valid"
    /\ fn_out = None
    /\ fn_out' = Returned(Dht22_is_valid(fn_in.response))
    /\ UNCHANGED <<handle_vars, ghost_vars, ack_vars, fn_in, pair>>

ApplyGetTemperature ==
    /\ pc = "fn"
    /\ fn_in.fn = "get_temperature"
    /\ fn_out = None
    /\ fn_out' = Returned(Dht22_get_temperature(Dht22_from_raw_bytes(fn_in.bytes)))
    /\ UNCHANGED <<handle_vars, ghost_vars, ack_vars, fn_in, pair>>

ApplyReset ==
    /\ pc = "fn"
    /\ fn_in.fn = "reset"
    /\ fn_out = None
    /\ fn_out' = reset(fn_in.fail_at, fn_in.first, fn_in.second)
    /\ UNCHANGED <<handle_vars, ghost_vars, ack_vars, fn_in, pair>>

ApplyReadTemperature ==
    /\ pc = "fn"
    /\ fn_in.fn = "read_temperature"
    /\ fn_out = None
    /\ fn_out' = ScratchpadResult(fn_in.data)
    /\ UNCHANGED <<handle_vars, ghost_vars, ack_vars, fn_in, pair>>

ApplyFromBytes ==
    /\ pc = "fn"
    /\ fn_in.fn = "from_bytes"
    /\ fn_out = None
    /\ fn_out' = Returned(Temperature_from_bytes(fn_in.low_sig, fn_in.high_sig))
    /\ UNCHANGED <<handle_vars, ghost_vars, ack_vars, fn_in, pair>>

ApplyNearestInteger ==
    /\ pc = "fn"
    /\ fn_in.fn = "nearest_integer"
    /\ fn_out = None
    /\ fn_out' = Returned(Temperature_nearest_integer(
                      Temperature_from_bytes(fn_in.low_sig, fn_in.high_sig)))
    /\ UNCHANGED <<handle_vars, ghost_vars, ack_vars, fn_in, pair>>

ApplyReadMcp ==
    /\ pc = "fn"
    /\ fn_in.fn = "read_mcp300x"
    /\ fn_out = None
    /\ fn_out' = read_mcp300x(fn_in.device, fn_in.request, fn_in.spi)
    /\ UNCHANGED <<handle_vars, ghost_vars, ack_vars, fn_in, pair>>

ApplyReadBit ==
    /\ pc = "fn"
    /\ fn_in.fn = "read_bit_with_timeout"
    /\ fn_out = None
    /\ fn_out' = read_bit_with_timeout(fn_in.pulse, fn_in.timeout, fn_in.hal_error)
    /\ UNCHANGED <<handle_vars, ghost_vars, ack_vars, fn_in, pair>>

\* write_byte(fn_in.byte), then read_byte over slots that repeat the write
\* slots.
ApplyWriteReadByte ==
    /\ pc = "fn"
    /\ fn_in.fn = "write_byte, read_byte"
    /\ fn_out = None
    /\ \E written \in {write_byte(fn_in.byte)} :
       \E sampled \in {[j \in 1..8 |-> EchoedLevel(written[j])]} :
         fn_out' = [kind |-> "Returned", written |-> written, sampled |-> sampled,
                    value |-> read_byte(sampled)]
    /\ UNCHANGED <<handle_vars, ghost_vars, ack_vars, fn_in, pair>>

ApplyReadTemperatureOnBus ==
    /\ pc = "fn"
    /\ fn_in.fn = "read_temperature on the bus"
    /\ fn_out = None
    /\ fn_out' = read_temperature(fn_in.fail_at, fn_in.error, fn_in.data)
    /\ UNCHANGED <<handle_vars, ghost_vars, ack_vars, fn_in, pair>>

\* parse_byte on the slice bit_ticks[from..from + 8].
ApplyParseByte ==
    /\ pc = "fn"
    /\ fn_in.fn = "parse_byte"
    /\ fn_out = None
    /\ fn_out' = Returned(parse_byte(fn_in.bit_ticks, fn_in.from, fn_in.threshold))
    /\ UNCHANGED <<handle_vars, ghost_vars, ack_vars, fn_in, pair>>

\* determine_tick_threshold, with the values of its locals at the return.  A
\* build with overflow checks panics at the first sum or product that leaves
\* the u32 range; a build without them goes on with the wrapped value.
ApplyThreshold ==
    /\ pc = "fn"
    /\ fn_in.fn \in {"determine_tick_threshold", "determine_tick_threshold, counts near 2^31"}
    /\ fn_out = None
    /\ \E min \in {MinTicks(fn_in.bit_ticks)}, max \in {MaxTicks(fn_in.bit_ticks)} :
       \E range \in {U32Add(U32Sub(max, min), 1)} :
       \E buckets \in {Histogram(fn_in.bit_ticks, min, range)} :
       \E found \in {FindPeaks(buckets)} :
       \E overflow_checks \in BOOLEAN :
         IF overflow_checks /\ ThresholdOverflows(fn_in.bit_ticks)
         THEN fn_out' = [kind |-> "Panicked"]
         ELSE fn_out' = [kind |-> "Returned",
                         value |-> determine_tick_threshold(fn_in.bit_ticks),
                         min |-> min, max |-> max, range |-> range,
                         buckets |-> buckets, num_peaks |-> Len(found),
                         peaks |-> PadPeaks(found),
                         two |-> TwoHighest(PadPeaks(found))]
    /\ UNCHANGED <<handle_vars, ghost_vars, ack_vars, fn_in, pair>>

FnNext ==
    \/ ApplyWriteReadByte
    \/ ApplyReadTemperatureOnBus
    \/ ApplyParseByte
    \/ ApplyThreshold
    \/ ApplyReadBit
    \/ ApplyReadMcp
    \/ ApplyNearestInteger
    \/ ApplyReadTemperature
    \/ ApplyFromBytes
    \/ ApplyReset
    \/ ApplyReadFrame
    \/ ApplyReceiveData
    \/ ApplyIsValid
    \/ ApplyGetTemperature

SpecFn == InitFn /\ [][FnNext]_vars

\* ------------------------------------------------------------------------
\* Two handles on two pins
\* ------------------------------------------------------------------------
\* Read calls started on the two handles together.
MaxPairCalls == 3

\* DhtBase::new for sensor s with the default options, as a record: the
\* fields of the handle, the position of its read call, and what the call
\* did (pin_ops, results) and met (env, overlapped).
HandleInit(s) ==
    [sensor |-> s, pc |-> "idle", input_pin |-> FALSE, output_pin |-> TRUE,
     level |-> "High", since_last_read |-> 0, to_wait |-> 0, pin_ops |-> <<>>,
     results |-> <<>>, env |-> <<>>, overlapped |-> FALSE]

\* What the environment does to one read: whether set_low succeeds, and the
\* receive phase with the outcomes of the two mode switches.
PairEvents ==
    {[set_low_ok |-> FALSE, sample |-> None, in_ok |-> TRUE, out_ok |-> TRUE]}
    \cup {[set_low_ok |-> TRUE, sample |-> x, in_ok |-> TRUE, out_ok |-> TRUE] :
            x \in {y \in Samples : /\ y.end_low = EndPulseLow
                                   /\ y.err_at = 0
                                   /\ y.ack \in {ErrNoResponse, Ok(4)}
                                   /\ y.bytes \in {<<0, 0, 0, 0, 0>>, <<1, 2, 0, 3, 6>>}}}
    \cup {[set_low_ok |-> TRUE, sample |-> x, in_ok |-> a, out_ok |-> ~a] :
            x \in {y \in Samples : y.ack = ErrNoResponse}, a \in BOOLEAN}

\* The handle h run up to its next suspension point or return: from idle,
\* read up to the interval wait (an idle handle holds the output pin or no
\* pin at all, and without a pin the unwrap panics); from the wait, nothing
\* but the resumption;
\* from there, set_low up to the request pulse delay; from that delay,
\* receive_data and the validation.
HandleStep(h, e) ==
    IF h.pc = "idle"
    THEN IF ~h.output_pin
         THEN [h EXCEPT !.pc = "panicked", !.env = Append(@, e)]
         ELSE LET wait == WaitFor(SensorMinReadInterval(h.sensor), h.since_last_read)
              IN [h EXCEPT !.pc = IF wait > 0 THEN "wait" ELSE "request",
                           !.to_wait = wait]
    ELSE IF h.pc = "wait"
    THEN [h EXCEPT !.pc = "request"]
    ELSE IF h.pc = "request"
    THEN IF e.set_low_ok
         THEN [h EXCEPT !.pc = "ping", !.level = "Low",
                        !.pin_ops = Append(@, "set_low")]
         ELSE [h EXCEPT !.pc = "idle", !.pin_ops = Append(@, "set_low failed"),
                        !.results = Append(@, ErrWrapped("set_low")),
                        !.env = Append(@, e)]
    ELSE LET received == receive_data(e.sample, e.in_ok, e.out_ok, h.level,
                                      h.since_last_read)
             result == IF IsErr(received.result) THEN received.result
                       ELSE ValidateResponse(h.sensor, received.result.value)
         IN [h EXCEPT !.pc = "idle",
                      !.input_pin = received.input_pin,
                      !.output_pin = received.output_pin,
                      !.level = received.level,
                      !.since_last_read = received.since_last_read,
                      !.pin_ops = @ \o
                          (IF ~e.in_ok THEN <<"into_input_pin failed">>
                           ELSE IF ~e.out_ok
                           THEN <<"into_input_pin", "into_output_pin failed">>
                           ELSE <<"into_input_pin", "into_output_pin">>),
                      !.results = Append(@, result),
                      !.env = Append(@, e)]

\* The time that passes on the shared clock before the step HandleStep(h, e)
\* is taken: the delay the handle was suspended in.
StepTime(h) ==
    IF h.pc = "wait" THEN h.to_wait
    ELSE IF h.pc = "ping" THEN PingDuration(h.sensor)
    ELSE 0

\* A handle after dt has passed on the clock: elapsed_since_fn reports dt
\* more (read compares the report with the minimum interval only, so reports
\* from the minimum interval on are not told apart).
Aged(h, dt) ==
    [h EXCEPT !.since_last_read =
                  IF @ + dt > SensorMinReadInterval(h.sensor)
                  THEN SensorMinReadInterval(h.sensor) ELSE @ + dt]

\* Faulty variant of OtherAfter: both handles drive the same line.
OtherAfter_SharedLine(other, mine, dt) ==
    [Aged(other, dt) EXCEPT !.level = mine.level,
                            !.overlapped = @ \/ other.pc # "idle"]

\* The other handle after a step of handle `mine` that came dt after the
\* previous step: its fields are its own, only the clock has advanced.
OtherAfter(other, mine, dt) ==
    [Aged(other, dt) EXCEPT !.overlapped = @ \/ other.pc # "idle"]

\* One read call run from its start to its return with nothing in between.
ReadAlone(h, e) ==
    LET step(x) == IF x.pc \in {"idle", "panicked"} THEN x
                   ELSE HandleStep(Aged(x, StepTime(x)), e)
        next(xs) == {step(x) : x \in xs}
    IN CHOOSE r \in next(next(next({HandleStep(x, e) : x \in {h}}))) : TRUE

InitPair ==
    /\ sensor = "Dht11"
    /\ opt_arg = None
    /\ pc = "pair"
    /\ options = None
    /\ input_pin = FALSE
    /\ output_pin = FALSE
    /\ level = "High"
    /\ since_last_read = 0
    /\ i = 0
    /\ last_result = None
    /\ to_wait = 0
    /\ returned = None
    /\ calls = 0
    /\ attempt_log = <<>>
    /\ pin_ops = <<>>
    /\ delays = <<>>
    /\ elapsed_seen = 0
    /\ since_idle = 0
    /\ pulse_gap = <<>>
    /\ rx_seen = None
    /\ AckIdle
    /\ fn_in = None
    /\ fn_out = None
    /\ pair = <<HandleInit("Dht11"), HandleInit("Dht22"),
                 HandleInit("Dht11"), HandleInit("Dht22")>>

\* One of the two handles, pair[1] and pair[2], runs to its next suspension
\* point or return.  pair[k + 2] is a handle like pair[k] that has no
\* other handle beside it: when a read of pair[k] ends, it runs a whole
\* read that meets the same environment.
PairStep ==
    /\ pc = "pair"
    /\ \E k \in 1..2, e \in PairEvents :
         LET mine == pair[k]
             dt == StepTime(mine)
             after == HandleStep(Aged(mine, dt), e)
         IN /\ mine.pc # "panicked"
            /\ mine.pc = "idle"
                => Len(pair[1].env) + Len(pair[2].env)
                   + (IF pair[3 - k].pc = "idle" THEN 0 ELSE 1) < MaxPairCalls
            /\ (mine.pc \in {"idle", "wait"}) => ~e.set_low_ok
            /\ mine.pc = "ping" => e.set_low_ok
            /\ pair' = [j \in 1..4 |->
                           IF j = k THEN after
                           ELSE IF j = 3 - k THEN OtherAfter(pair[j], after, dt)
                           ELSE IF j = k + 2 /\ Len(after.env) > Len(mine.env)
                           THEN ReadAlone(pair[j], e)
                           ELSE pair[j]]
    /\ UNCHANGED <<handle_vars, ghost_vars, ack_vars, fn_in, fn_out>>

SpecPair == InitPair /\ [][PairStep]_vars

\* ------------------------------------------------------------------------
\* Properties
\* ------------------------------------------------------------------------
\* A read call has returned and no other has started since.
ReadReturned == pc = "idle" /\ calls >= 1 /\ returned # None

LastAttempt == attempt_log[Len(attempt_log)]

CountPinOps(op) == Cardinality({k \in 1..Len(pin_ops) : pin_ops[k] = op})

\* C1: an attempt that ends with NoResponse is the last attempt of its read
\* call: read returns NoResponse right after it and starts no further attempt;
\* when the first attempt ends so, exactly one request pulse was made.
C1_NoResponseReturnsAtOnce ==
    \A k \in 1..Len(attempt_log) :
        attempt_log[k] = ErrNoResponse =>
            /\ k = Len(attempt_log)
            /\ pc = "idle"
            /\ returned = ErrNoResponse
            /\ (k = 1 => CountPinOps("set_low") = 1 /\ CountPinOps("set_low failed") = 0)

C1_Witness ==
    /\ options # None
    /\ options.max_attempts = 2
    /\ attempt_log = <<ErrNoResponse>>
    /\ ReadReturned
    /\ returned = ErrNoResponse

\* The environment played a valid frame in the current attempt: both mode
\* switches accepted, a full ACK, no HAL error, a short end pulse, and bytes
\* whose checksum and ranges are valid for both sensors.
C2_ValidFrameReceived ==
    /\ rx_seen # None
    /\ rx_seen.in_ok
    /\ rx_seen.out_ok
    /\ rx_seen.sample.ack = Ok(4)
    /\ rx_seen.sample.err_at = 0
    /\ rx_seen.sample.end_low = 2
    /\ rx_seen.sample.bytes \in { <<0, 0, 0, 0, 0>>, <<1, 2, 0, 3, 6>> }

\* The response the bytes of a frame stand for.
C2_Expected(s, b) ==
    IF s = "Dht11"
    THEN [humidity |-> b[1], humidity_decimal |-> b[2],
          temperature |-> b[3], temperature_decimal |-> b[4]]
    ELSE [humidity_x10 |-> 256 * b[1] + b[2], temperature_x10 |-> 256 * b[3] + b[4]]

\* C2: when the attempts before the current one all failed with BadData and
\* the current attempt receives a valid frame, read returns Ok with the values
\* decoded from that frame.
C2_RetryThenSuccess ==
    ( /\ Len(attempt_log) >= 1
      /\ \A k \in 1..(Len(attempt_log) - 1) : attempt_log[k] = ErrBadData
      /\ C2_ValidFrameReceived )
    => /\ pc = "idle"
       /\ returned = Ok(C2_Expected(sensor, rx_seen.sample.bytes))
       /\ LastAttempt = returned

C2_Witness ==
    /\ ReadReturned
    /\ Len(attempt_log) = 2
    /\ attempt_log[1] = ErrBadData
    /\ C2_ValidFrameReceived
    /\ rx_seen.sample.bytes = <<1, 2, 0, 3, 6>>
    /\ returned.kind = "Ok"

\* C3: a read call returns the result of its last attempt; when every attempt
\* failed with BadData, exactly max_attempts attempts (and request pulses)
\* were made.
C3_LastErrorAfterAllAttempts ==
    ReadReturned =>
        /\ Len(attempt_log) >= 1
        /\ returned = LastAttempt
        /\ (\A k \in 1..Len(attempt_log) : attempt_log[k] = ErrBadData)
            => /\ Len(attempt_log) = options.max_attempts
               /\ CountPinOps("set_low") = options.max_attempts

C3_Witness ==
    /\ ReadReturned
    /\ options.max_attempts = 2
    /\ attempt_log = <<ErrBadData, ErrBadData>>
    /\ returned = ErrBadData

\* C4: an attempt that ends with a wrapped HAL error is the last attempt of
\* its read call: no further attempt begins after it (read is on its way out
\* of the loop or has returned), and the value returned is that error,
\* whatever max_attempts is.
C4_WrappedNeverRetried ==
    \A k \in 1..Len(attempt_log) :
        attempt_log[k].kind = "Wrapped" =>
            /\ k = Len(attempt_log)
            /\ pc \in {"loop", "idle"}
            /\ pc = "idle" => returned = attempt_log[k]

\* C5: whenever a read call has returned, the handle holds the pin in output
\* mode with high as the last level driven.
C5_IdleHighOnReturn ==
    ReadReturned => (output_pin /\ ~input_pin /\ level = "High")

\* C6: a constructed handle holds exactly one of input_pin and output_pin.
C6_ExactlyOneMode ==
    pc \notin {"new", "failed"} => (input_pin # output_pin)

\* C7: before the request pulse of an attempt, delay_fn has been called once
\* with min_read_interval - e when the clock reported e < min_read_interval
\* at the start of the attempt, and not at all otherwise.
C7_WaitsRemainder ==
    /\ pc = "wait" =>
            /\ since_last_read < options.min_read_interval
            /\ to_wait = options.min_read_interval - since_last_read
            /\ delays = <<to_wait>>
    /\ pc = "request" =>
            IF elapsed_seen < options.min_read_interval
            THEN delays = <<options.min_read_interval - elapsed_seen>>
            ELSE delays = <<>>

C7_Witness ==
    /\ pc = "wait"
    /\ calls = 2
    /\ since_last_read > 0
    /\ delays = <<options.min_read_interval - since_last_read>>

\* C8: whenever set_low starts a request pulse, at least min_read_interval has
\* passed on the clock since the line last returned to output idle.
C8_PulseAfterInterval ==
    \A k \in 1..Len(pulse_gap) : pulse_gap[k] >= options.min_read_interval

C8_Witness ==
    /\ pc = "ping"
    /\ i = 1
    /\ attempt_log = <<ErrBadData>>
    /\ Len(pulse_gap) = 1
    /\ pulse_gap[1] >= options.min_read_interval

\* C9: new fails with InvalidArgument exactly when options are given whose
\* min_read_interval is below 1000 ms (DHT11) or 2000 ms (DHT22) or whose
\* max_attempts is below 1, and then no pin operation was made; without
\* options the handle uses the sensor's minimum interval and 1 attempt.
C9_NewValidatesOptions ==
    pc \notin {"new", "read_ack"} =>
        LET floor == IF sensor = "Dht11" THEN 1000 ELSE 2000
            invalid == /\ opt_arg # None
                       /\ \/ opt_arg.value.min_read_interval < floor
                          \/ opt_arg.value.max_attempts < 1
        IN /\ (pc = "failed") <=> invalid
           /\ pc = "failed" =>
                /\ returned = ErrInvalidArgument
                /\ pin_ops = <<>>
                /\ ~input_pin /\ ~output_pin
           /\ (pc # "failed" /\ opt_arg = None) =>
                options = [min_read_interval |-> floor, max_attempts |-> 1]
           /\ (pc # "failed" /\ opt_arg # None) => options = opt_arg.value

C9_Witness ==
    /\ pc = "failed"
    /\ opt_arg # None
    /\ opt_arg.value.max_attempts = 0
    /\ opt_arg.value.min_read_interval = 2000
    /\ returned = ErrInvalidArgument

\* C10: read_ack returns NoResponse whenever a watchdog check in the first or
\* second loop finds more than 2 ms elapsed since the ACK started; it returns
\* NoResponse only then: never with 2 ms or less on the clock, never from the
\* third loop.
C10_NoResponseFromWatchdog ==
    /\ [](ack_result = ErrNoResponse =>
            /\ ack_elapsed > 2
            /\ ack_phase \in {1, 2}
            /\ ack_counter % 1000 = 0)
    /\ [][( /\ ack_result = None
            /\ ack_phase \in {1, 2}
            /\ ack_counter' = ack_counter + 1
            /\ ack_counter' % 1000 = 0
            /\ ack_elapsed > 2 )
          => ack_result' = ErrNoResponse]_vars

C10_Witness ==
    /\ ack_result = ErrNoResponse
    /\ ack_phase = 2
    /\ ack_counter = 2000
    /\ ack_elapsed = 3

\* The attempt on the frame fn_in has returned.
FrameRead == pc = "fn" /\ fn_in.fn = "read" /\ fn_out # None

\* The tick counts receive_data collects for the frame fn_in.
SentTicks ==
    LET train == TimedTrain(fn_in.bytes, fn_in.timing)
    IN Tabulate([k \in 1..NumBits |-> train[k].low + train[k].high])

\* Byte n (0..4) as receive_data decodes it from the frame fn_in.
DecodedByte(n) == parse_byte(SentTicks, 8 * n, determine_tick_threshold(SentTicks))

\* C11: a received frame whose decoded fifth byte differs from the sum of the
\* four decoded payload bytes mod 256 is rejected with BadData; a frame sent
\* as a checksum-valid frame with one payload bit flipped is rejected with
\* BadData.
C11_ChecksumMismatchIsBadData ==
    FrameRead =>
        /\ DecodedByte(4) # (DecodedByte(0) + DecodedByte(1) + DecodedByte(2)
                             + DecodedByte(3)) % 256
            => fn_out = ErrBadData
        /\ ( /\ fn_in.timing = IdealTiming
             /\ \E k \in 0..31 :
                    LET valid == FlipBit(fn_in.bytes, k)
                    IN valid[5] = (valid[1] + valid[2] + valid[3] + valid[4]) % 256 )
            => fn_out = ErrBadData

C11_Witness ==
    /\ FrameRead
    /\ fn_in.bytes = <<17, 0, 15, 1, 32>>
    /\ fn_in.timing = IdealTiming
    /\ fn_out = ErrBadData

\* receive_data has returned for the frame fn_in.
FrameReceived == pc = "fn" /\ fn_in.fn = "receive_data" /\ fn_out # None

\* Bit k (1..40) of the frame fn_in as sent.
SentBit(k) == BitOf(fn_in.bytes[((k - 1) \div 8) + 1], (k - 1) % 8)

\* The histogram buckets of the pulses of the frame fn_in that carry bit b.
SentBuckets(b) ==
    LET ticks == SentTicks
        min == MinTicks(ticks)
        max == MaxTicks(ticks)
    IN {BucketOf(ticks[k], min, max - min + 1) : k \in {j \in 1..NumBits : SentBit(j) = b}}

\* The frame fn_in has pulses of both kinds, and at least one histogram bucket
\* lies between those of the 0 bits and those of the 1 bits.
ClustersSeparated ==
    LET zeros == SentBuckets(0)
        ones == SentBuckets(1)
    IN /\ zeros # {}
       /\ ones # {}
       /\ \A z \in zeros, o \in ones : z + 1 < o

\* C12: for a frame with a correct checksum whose 0-bit and 1-bit pulses are
\* separated by at least one histogram bucket, receive_data returns exactly
\* the four payload bytes sent, also when every pulse is one tick longer or
\* shorter than nominal.
C12_RoundTripUnderJitter ==
    (FrameReceived /\ ClustersSeparated)
        => fn_out = Ok(<<fn_in.bytes[1], fn_in.bytes[2], fn_in.bytes[3], fn_in.bytes[4]>>)

ValidChecksumFrameRead ==
    /\ FrameRead
    /\ fn_in.timing = IdealTiming
    /\ fn_in.bytes[5] = (fn_in.bytes[1] + fn_in.bytes[2] + fn_in.bytes[3] + fn_in.bytes[4]) % 256

\* C14: a checksum-valid DHT11 frame is accepted exactly when humidity is in
\* 0..100 with decimal < 10 (0 at humidity 100) and temperature is in 0..75
\* with decimal < 10 (0 at temperature 75); any other checksum-valid frame
\* gives BadData.
C14_Dht11RangeCheck ==
    (ValidChecksumFrameRead /\ fn_in.sensor = "Dht11") =>
        LET h == fn_in.bytes[1]
            hd == fn_in.bytes[2]
            t == fn_in.bytes[3]
            td == fn_in.bytes[4]
            in_range == /\ h \in 0..100 /\ hd < 10 /\ (h = 100 => hd = 0)
                        /\ t \in 0..75 /\ td < 10 /\ (t = 75 => td = 0)
        IN IF in_range
           THEN fn_out = Ok([humidity |-> h, humidity_decimal |-> hd,
                             temperature |-> t, temperature_decimal |-> td])
           ELSE fn_out = ErrBadData

C14_Witness ==
    /\ ValidChecksumFrameRead
    /\ fn_in.sensor = "Dht11"
    /\ fn_in.bytes = <<100, 0, 75, 9, 184>>
    /\ fn_out = ErrBadData

\* The values a DHT22 frame carries: humidity in tenths, the sign bit and the
\* magnitude of the temperature in tenths.
SentHumidityX10 == 256 * fn_in.bytes[1] + fn_in.bytes[2]
SentTemperatureNegative == fn_in.bytes[3] >= 128
SentTemperatureMagnitude == 256 * (fn_in.bytes[3] % 128) + fn_in.bytes[4]

\* C15 as stated: a checksum-valid DHT22 frame is accepted exactly when
\* humidity_x10 <= 1000 and the temperature magnitude is < 600 with the sign
\* bit set or < 1500 with it clear; otherwise read fails with BadData.
C15_Dht22RangeCheckExclusive ==
    (ValidChecksumFrameRead /\ fn_in.sensor = "Dht22") =>
        IF /\ SentHumidityX10 <= 1000
           /\ IF SentTemperatureNegative
              THEN SentTemperatureMagnitude < 600
              ELSE SentTemperatureMagnitude < 1500
        THEN fn_out.kind = "Ok"
        ELSE fn_out = ErrBadData

\* C15 amended: a checksum-valid DHT22 frame is accepted exactly when
\* humidity_x10 <= 1000 and the temperature magnitude is <= 600 with the sign
\* bit set or <= 1500 with it clear; otherwise read fails with BadData.
C15_Dht22RangeCheck ==
    (ValidChecksumFrameRead /\ fn_in.sensor = "Dht22") =>
        IF /\ SentHumidityX10 <= 1000
           /\ IF SentTemperatureNegative
              THEN SentTemperatureMagnitude <= 600
              ELSE SentTemperatureMagnitude <= 1500
        THEN fn_out = Ok([humidity_x10 |-> SentHumidityX10,
                          temperature_x10 |-> 256 * fn_in.bytes[3] + fn_in.bytes[4]])
        ELSE fn_out = ErrBadData

C15_Witness ==
    /\ ValidChecksumFrameRead
    /\ fn_in.sensor = "Dht22"
    /\ SentHumidityX10 = 1000
    /\ SentTemperatureNegative
    /\ SentTemperatureMagnitude = 600
    /\ fn_out.kind = "Ok"

\* Dht22Response::is_valid has returned for the response fn_in.response.
IsValidReturned == pc = "fn" /\ fn_in.fn = "is_valid" /\ fn_out # None

\* C16: Dht22Response::is_valid accepts humidity_x10 = 1000, temperature
\* +1500 tenths and temperature -600 tenths, and rejects humidity_x10 = 1001,
\* temperature +1501 tenths and temperature -601 tenths.
C16_Dht22Boundaries ==
    IsValidReturned =>
        LET h == fn_in.response.humidity_x10
            t == fn_in.response.temperature_x10
        IN /\ (h = 1000 /\ t \in {0, 1500, 32768 + 600}) => fn_out = Returned(TRUE)
           /\ (h = 0 /\ t \in {1500, 32768 + 600}) => fn_out = Returned(TRUE)
           /\ h = 1001 => fn_out = Returned(FALSE)
           /\ t \in {1501, 32768 + 601} => fn_out = Returned(FALSE)

C16_Witness ==
    /\ IsValidReturned
    /\ fn_in.response = [humidity_x10 |-> 0, temperature_x10 |-> 32768 + 601]
    /\ fn_out = Returned(FALSE)

\* get_temperature has returned for the response made of fn_in.bytes.
TemperatureReturned == pc = "fn" /\ fn_in.fn = "get_temperature" /\ fn_out # None

\* C17: the DHT22 temperature (byte2 << 8) | byte3 is sign and magnitude: in
\* tenths of a degree it is minus the low 15 bits when bit 15 is set and the
\* low 15 bits otherwise; sign bit set with magnitude 257 gives -257 tenths.
C17_SignMagnitudeTemperature ==
    TemperatureReturned =>
        LET magnitude == 256 * (fn_in.bytes[3] % 128) + fn_in.bytes[4]
        IN /\ fn_out = Returned(IF fn_in.bytes[3] >= 128 THEN 0 - magnitude ELSE magnitude)
           /\ (fn_in.bytes[3] = 129 /\ fn_in.bytes[4] = 1) => fn_out = Returned(0 - 257)

C17_Witness ==
    /\ TemperatureReturned
    /\ fn_in.bytes = <<0, 0, 129, 1>>
    /\ fn_out = Returned(0 - 257)

\* reset has returned.
ResetReturned == pc = "fn" /\ fn_in.fn = "reset" /\ fn_out # None

\* The microseconds of delay requested between call number `from` and call
\* number `to` of the calls reset made.
DelayBetween(from, to) ==
    LET ops == fn_out.ops
        us(k) == IF ops[k].op = "delay_us" THEN ops[k].us ELSE 0
    IN IF to - from <= 1 THEN 0
       ELSE IF to - from = 2 THEN us(from + 1)
       ELSE IF to - from = 3 THEN us(from + 1) + us(from + 2)
       ELSE IF to - from = 4 THEN us(from + 1) + us(from + 2) + us(from + 3)
       ELSE us(from + 1) + us(from + 2) + us(from + 3) + us(from + 4) + us(from + 5)

\* C18: reset drives the line low for 480 us, releases it, switches to input
\* and samples the line 30 us and 60 us after the release; it fails with
\* NoSensorsFound exactly when both samples are taken and read high, and
\* otherwise returns the pin after waiting the remaining 420 us.
C18_ResetPresence ==
    ResetReturned =>
        LET ops == fn_out.ops
            n == Len(ops)
            low_at == 1
            release_at == 3
            sampled == {k \in 1..n : ops[k].op = "is_low"}
        IN /\ n >= 1 /\ ops[low_at].op = "into_output_pin(Low)"
           /\ n >= release_at =>
                /\ ops[release_at].op = "set_high"
                /\ DelayBetween(low_at, release_at) = 480
           /\ sampled \subseteq {6, 8}
           /\ 6 \in sampled => DelayBetween(release_at, 6) = 30 /\ ops[4].op = "into_input_pin"
           /\ 8 \in sampled => DelayBetween(release_at, 8) = 60
           /\ fn_out.result = ErrNoSensorsFound
                <=> /\ fn_in.fail_at \notin 1..8
                    /\ fn_in.first = "High"
                    /\ fn_in.second = "High"
           /\ fn_out.result = ErrNoSensorsFound => n = 8
           /\ (fn_in.fail_at = 0 /\ (fn_in.first = "Low" \/ fn_in.second = "Low"))
                => /\ fn_out.result = Ok("input pin")
                   /\ n = 9
                   /\ ops[9] = [op |-> "delay_us", us |-> 420]

C18_Witness ==
    /\ ResetReturned
    /\ fn_in.fail_at = 0
    /\ fn_in.first = "High"
    /\ fn_in.second = "Low"
    /\ fn_out.result = Ok("input pin")
    /\ Len(fn_out.ops) = 9

\* read_temperature has returned after reading a scratchpad.
ScratchpadRead == pc = "fn" /\ fn_in.fn = "read_temperature" /\ fn_out # None

\* a ^ b on bytes.
Xor8(a, b) ==
    LET acc[j \in 0..8] ==
            IF j = 0 THEN 0
            ELSE acc[j - 1]
                 + (IF (a \div 2^(j - 1)) % 2 # (b \div 2^(j - 1)) % 2
                    THEN 2^(j - 1) ELSE 0)
    IN acc[8]

\* One shift of the Dallas/Maxim CRC-8 register v, which already holds the
\* incoming bit xor-ed into its lowest bit: polynomial x^8 + x^5 + x^4 + 1,
\* reflected (0x8C), least significant bit first.
DallasShift(v) == IF v % 2 = 1 THEN Xor8(v \div 2, 140) ELSE v \div 2

\* The register after the eight shifts of one byte.
DallasShift8(v) ==
    DallasShift(DallasShift(DallasShift(DallasShift(
        DallasShift(DallasShift(DallasShift(DallasShift(v))))))))

\* The register after the byte `byte` has been shifted into the register crc.
DallasByte(crc, byte) == DallasShift8(Xor8(crc, byte))

\* The registers after one more byte, from the registers in crcs.
DallasNext(crcs, byte) == {DallasByte(crc, byte) : crc \in crcs}

\* The Dallas/Maxim CRC-8, initial value 0, of a sequence of eight bytes.
DallasCrc8(bytes) ==
    CHOOSE crc \in
        DallasNext(DallasNext(DallasNext(DallasNext(
            DallasNext(DallasNext(DallasNext(DallasNext({0},
                bytes[1]), bytes[2]), bytes[3]), bytes[4]),
                bytes[5]), bytes[6]), bytes[7]), bytes[8]) : TRUE

\* C19: read_temperature accepts a scratchpad exactly when byte 8 is the
\* Dallas/Maxim CRC-8 of bytes 0..7, and returns BadData otherwise.
C19_DallasCrcDecides ==
    ScratchpadRead =>
        IF fn_in.data[9] = DallasCrc8(SubSeq(fn_in.data, 1, 8))
        THEN fn_out.kind = "Ok"
        ELSE fn_out = ErrBadData

\* Temperature::from_bytes has returned.
FromBytesReturned == pc = "fn" /\ fn_in.fn = "from_bytes" /\ fn_out # None

\* The two's-complement value of the 16-bit register (high << 8 | low).
RegisterValue(low, high) == ToSigned(high * 256 + low, 16)

\* C20: for every register pair, integer_part * 16 + decimal_part is the
\* two's-complement value of (high << 8 | low); (0xF9, 0x12) gives integer
\* 0x12F and decimal 9, and (0x6E, 0xFE) gives integer -25 and decimal -2.
C20_FromBytesValue ==
    FromBytesReturned =>
        LET t == fn_out.value
        IN /\ t.integer * 16 + t.decimal = RegisterValue(fn_in.low_sig, fn_in.high_sig)
           /\ (fn_in.low_sig = 249 /\ fn_in.high_sig = 18)
                => t = [integer |-> 303, decimal |-> 9]
           /\ (fn_in.low_sig = 110 /\ fn_in.high_sig = 254)
                => t = [integer |-> 0 - 25, decimal |-> 0 - 2]

C20_Witness ==
    /\ FromBytesReturned
    /\ fn_in.low_sig = 110
    /\ fn_in.high_sig = 254
    /\ fn_out = Returned([integer |-> 0 - 25, decimal |-> 0 - 2])

\* Temperature::nearest_integer has returned.
NearestIntegerReturned == pc = "fn" /\ fn_in.fn = "nearest_integer" /\ fn_out # None

\* v / 16 rounded to the nearest integer, one half away from zero.
RoundSixteenths(v) == IF v >= 0 THEN (v + 8) \div 16 ELSE 0 - ((8 - v) \div 16)

\* C21: for every register pair, nearest_integer is the register value / 16
\* rounded to the nearest integer, one half rounded away from zero.
C21_NearestInteger ==
    NearestIntegerReturned =>
        fn_out.value = RoundSixteenths(RegisterValue(fn_in.low_sig, fn_in.high_sig))

\* read_mcp3004 or read_mcp3008 has returned.
McpReturned == pc = "fn" /\ fn_in.fn = "read_mcp300x" /\ fn_out # None

\* The requests the claims call invalid for the device.
McpRequestRefused ==
    \/ /\ fn_in.device = "mcp3004"
       /\ fn_in.request.kind = "SingleEnded"
       /\ fn_in.request.channel >= 4
    \/ /\ fn_in.device = "mcp3004"
       /\ fn_in.request.kind = "Differential"
       /\ fn_in.request.mode > 3
    \/ /\ fn_in.device = "mcp3008"
       /\ fn_in.request.kind = "SingleEnded"
       /\ fn_in.request.channel >= 8

McpRequestByte ==
    IF fn_in.request.kind = "SingleEnded"
    THEN 128 + 16 * fn_in.request.channel
    ELSE 16 * fn_in.request.mode

\* C23: a valid request sends [0x01, to_bits << 4, 0x00]; with received
\* bytes rx the result is BadData when bit 2 of rx[1] is set and otherwise
\* ((rx[1] & 0b11) << 8) + rx[2], in 0..1023, whatever rx[0] and the upper
\* five bits of rx[1] are.
C23_RequestAndResult ==
    (McpReturned /\ ~McpRequestRefused) =>
        /\ fn_out.transfers = << <<1, McpRequestByte, 0>> >>
        /\ fn_in.spi.ok =>
            LET rx == fn_in.spi.rx
                low3 == rx[2] % 8
            IN IF low3 >= 4
               THEN fn_out.result = ErrBadData
               ELSE /\ fn_out.result = Ok(low3 * 256 + rx[3])
                    /\ fn_out.result.value \in 0..1023

C23_Witness ==
    /\ McpReturned
    /\ fn_in.device = "mcp3008"
    /\ fn_in.request = SingleEnded(1)
    /\ fn_in.spi = [ok |-> TRUE, rx |-> <<255, 251, 68>>]
    /\ fn_out = [transfers |-> << <<1, 144, 0>> >>, result |-> Ok(836)]

\* A read call was dropped during the interval wait of its first attempt.
CancelledInFirstWait ==
    /\ pc = "idle"
    /\ calls >= 1
    /\ returned = None
    /\ attempt_log = <<>>

\* C24: a read call cancelled while suspended in the minimum-interval wait of
\* its first attempt has issued no pin operation and has left the pin mode,
\* the level of the line and last_read_time as they were when it was called:
\* no step from the call to the cancellation touches them.
C24_CancelInWaitNoEffect ==
    [][ (\/ pc = "idle" /\ pc' = "loop"
         \/ pc = "loop" /\ i = 0 /\ pc' = "wait"
         \/ pc = "wait" /\ i = 0 /\ pc' = "idle")
        => /\ pin_ops' = <<>>
           /\ UNCHANGED <<input_pin, output_pin, level, since_last_read>> ]_vars

C24_Witness ==
    /\ CancelledInFirstWait
    /\ pin_ops = <<>>
    /\ delays = <<to_wait>>
    /\ to_wait > 0
    /\ output_pin
    /\ ~input_pin

\* C26: each of the three phases of read_ack is bounded by the watchdog: a
\* poll that finds the line still at the phase's level, brings the counter to
\* a multiple of WATCHDOG_COUNTS and comes more than TIMEOUT after start_time
\* ends read_ack with NoResponse, so no phase can poll on for ever.
C26_EveryPhaseWatched ==
    [][ (/\ pc = "read_ack"
         /\ ack_counter' = ack_counter + 1
         /\ ack_counter' % WATCHDOG_COUNTS = 0
         /\ ack_elapsed > TIMEOUT)
        => ack_result' = ErrNoResponse ]_vars

\* read_bit_with_timeout has returned without a HAL error.
ReadBitReturned ==
    /\ pc = "fn"
    /\ fn_in.fn = "read_bit_with_timeout"
    /\ ~fn_in.hal_error
    /\ fn_out # None

\* C27 as stated: the bit read fails exactly when the count of polls of the
\* low sub-phase or the count of polls of the high sub-phase exceeds
\* bit_timeout, and otherwise returns the sum of the two counts.
C27_FailsIffSubPhaseExceeds ==
    ReadBitReturned =>
        IF fn_in.pulse.low > fn_in.timeout \/ fn_in.pulse.high > fn_in.timeout
        THEN fn_out = ErrBadData
        ELSE fn_out = Ok(fn_in.pulse.low + fn_in.pulse.high)

\* C27: the bit read fails exactly when the count of polls of the low
\* sub-phase, or that count plus the count of polls of the high sub-phase,
\* exceeds bit_timeout, and otherwise returns the sum of the two counts.
C27_FailsIffRunningCountExceeds ==
    ReadBitReturned =>
        IF \/ fn_in.pulse.low > fn_in.timeout
           \/ fn_in.pulse.low + fn_in.pulse.high > fn_in.timeout
        THEN fn_out = ErrBadData
        ELSE fn_out = Ok(fn_in.pulse.low + fn_in.pulse.high)

C27_Witness ==
    /\ ReadBitReturned
    /\ fn_in.pulse = [low |-> 3, high |-> 3]
    /\ fn_in.timeout = 4
    /\ fn_out = ErrBadData

\* C28: for every tick count read_ack returns, the bit timeout
\* ack_ticks << 2 is 4 times the tick count: the shift never wraps to a
\* smaller value.
C28_BitTimeoutNeverWraps ==
    (pc = "read_ack" /\ ack_result.kind = "Ok") =>
        /\ BitTimeout(ack_result.value) >= ack_result.value
        /\ BitTimeout(ack_result.value) \div 4 = ack_result.value

\* determine_tick_threshold has returned.
ThresholdReturned == pc = "fn" /\ fn_in.fn = "determine_tick_threshold" /\ fn_out # None

\* The number of bit_ticks that fall into bucket b as the claim indexes them.
ClaimedBucketCount(b) ==
    Cardinality({k \in 1..Len(fn_in.bit_ticks) :
        ((fn_in.bit_ticks[k] - fn_out.min) * 10) \div fn_out.range = b})

\* The buckets that are peaks by the claim's rule.
ClaimedPeaks ==
    {b \in 0..9 :
        /\ fn_out.buckets[b] > (IF b = 0 THEN 0 ELSE fn_out.buckets[b - 1])
        /\ (b = 9 \/ fn_out.buckets[b] > fn_out.buckets[b + 1])}

\* C29: the histogram has bucket (v - min) * 10 / range for each value v with
\* range = max - min + 1; a bucket is a peak only if its count is strictly
\* greater than the previous bucket's and it is the last bucket or strictly
\* greater than the next bucket's; with fewer than 2 peaks the threshold is
\* min + range / 2.
C29_PeakRuleAndMidpoint ==
    ThresholdReturned =>
        /\ fn_out.range = fn_out.max - fn_out.min + 1
        /\ \A b \in 0..9 : fn_out.buckets[b] = ClaimedBucketCount(b)
        /\ {fn_out.peaks[k].index : k \in 1..fn_out.num_peaks} = ClaimedPeaks
        /\ fn_out.num_peaks = Cardinality(ClaimedPeaks)
        /\ Cardinality(ClaimedPeaks) < 2
            => fn_out.value = fn_out.min + fn_out.range \div 2

\* Two adjacent buckets with equal counts register no peak: only the last
\* bucket is one, and the midpoint is returned.
C29_Witness ==
    /\ ThresholdReturned
    /\ fn_out.buckets[0] = 16
    /\ fn_out.buckets[1] = 16
    /\ fn_out.buckets[9] = 8
    /\ fn_out.min = 3
    /\ fn_out.max = 12
    /\ fn_out.num_peaks = 1
    /\ fn_out.value = 8

\* The position in the scan of the peak the claim selects from the buckets
\* in `among`: the highest count, the first met among equals.
ClaimedPick(among) ==
    CHOOSE b \in among :
        \A c \in among :
            \/ fn_out.buckets[b] > fn_out.buckets[c]
            \/ fn_out.buckets[b] = fn_out.buckets[c] /\ b <= c

\* The ticks the claim maps bucket b to.
ClaimedTicks(b) ==
    IF b = 9 THEN fn_out.max
    ELSE ((fn_out.range * b) \div 10 + fn_out.min
          + (fn_out.range * (b + 1)) \div 10 + fn_out.min) \div 2

\* C30: with 2 or more peaks the two peaks with the highest counts are
\* selected, the first met in the scan among equals; the last bucket maps to
\* max and bucket i to the mean of range*i/10 + min and range*(i+1)/10 + min;
\* the threshold is the integer mean of the two mapped values; the
\* placeholder peak (-1, 0) is never selected.
C30_TwoHighestPeaks ==
    (ThresholdReturned /\ fn_out.num_peaks >= 2) =>
        LET first == ClaimedPick(ClaimedPeaks)
            second == ClaimedPick(ClaimedPeaks \ {first})
        IN /\ fn_out.two[1] = Peak(first, fn_out.buckets[first])
           /\ fn_out.two[2] = Peak(second, fn_out.buckets[second])
           /\ fn_out.two[1].index # 0 - 1
           /\ fn_out.two[2].index # 0 - 1
           /\ fn_out.value = (ClaimedTicks(first) + ClaimedTicks(second)) \div 2

\* Three peaks, the two lower ones equal: the first of them is selected.
C30_Witness ==
    /\ ThresholdReturned
    /\ fn_out.num_peaks = 3
    /\ fn_out.peaks[1].count = 8
    /\ fn_out.peaks[2].count = 8
    /\ fn_out.peaks[3].count = 24
    /\ fn_out.two = <<fn_out.peaks[3], fn_out.peaks[1]>>

\* ------------------------------------------------------------------------
\* Two handles
\* ------------------------------------------------------------------------
\* What a caller and the pin of a handle see of it: the results returned,
\* the pin operations issued, and the pin mode and level it is left in.
PairObserved(h) ==
    [results |-> h.results, pin_ops |-> h.pin_ops, input_pin |-> h.input_pin,
     output_pin |-> h.output_pin, level |-> h.level, pc |-> h.pc]

ParseByteReturned == pc = "fn" /\ fn_in.fn = "parse_byte" /\ fn_out # None

\* C31: bit (7 - j) of the byte parse_byte returns is 1 exactly when the
\* j-th tick count of its slice is strictly greater than the threshold; a
\* tick count equal to the threshold gives a 0 bit.
C31_MsbFirstStrictlyAbove ==
    ParseByteReturned
    => /\ fn_out.value \in 0..255
       /\ \A j \in 0..7 :
            (BitOf(fn_out.value, j) = 1)
            <=> (fn_in.bit_ticks[fn_in.from + j + 1] > fn_in.threshold)

\* The second slice of a frame with a long pulse first, then a pulse equal
\* to the threshold, then short ones: only the top bit is set.
C31_Witness ==
    /\ ParseByteReturned
    /\ fn_in.from = 8
    /\ SubSeq(fn_in.bit_ticks, 9, 16) = <<5, 4, 3, 3, 3, 3, 3, 3>>
    /\ fn_out = Returned(128)

\* ------------------------------------------------------------------------
\* The end pulse
\* ------------------------------------------------------------------------
\* The tick counts of the 40 pulses the sensor of the last attempt sent.
RxTicks ==
    LET train == create_data_vec(rx_seen.sample.bytes)
    IN [k \in 1..NumBits |-> train[k].low + train[k].high]

\* The last attempt switched to input, got its ACK and read all 40 bits
\* within the bit timeout, without a HAL error while sampling.
EndPulseSampled ==
    /\ rx_seen # None
    /\ rx_seen.in_ok
    /\ rx_seen.sample.ack.kind = "Ok"
    /\ rx_seen.sample.err_at = 0
    /\ \A k \in 1..NumBits : RxTicks[k] <= 4 * rx_seen.sample.ack.value

\* The attempt ended with BadData, after a successful switch back to output.
RejectedAfterSwitchBack ==
    /\ LastAttempt = ErrBadData
    /\ output_pin
    /\ ~input_pin
    /\ level = "High"
    /\ pin_ops[Len(pin_ops)] = "into_output_pin"

\* C32: when the end pulse after the 40 bits lasts longer than bit_timeout,
\* or lasts more ticks than the threshold of the frame, the attempt ends
\* with BadData, whatever the checksum, and the line has been switched back
\* to output before (given that the HAL performs this switch).
C32_LongEndPulseRejected ==
    (EndPulseSampled /\ rx_seen.out_ok)
    => /\ rx_seen.sample.end_low > 4 * rx_seen.sample.ack.value
            => RejectedAfterSwitchBack
       /\ rx_seen.sample.end_low > determine_tick_threshold(RxTicks)
            => RejectedAfterSwitchBack

\* A checksum-valid frame followed by an end pulse of 6 ticks, within the
\* bit timeout of 16: rejected.
C32_Witness ==
    /\ EndPulseSampled
    /\ rx_seen.out_ok
    /\ rx_seen.sample.bytes = <<1, 2, 0, 3, 6>>
    /\ rx_seen.sample.ack = Ok(4)
    /\ rx_seen.sample.end_low = 6
    /\ determine_tick_threshold(RxTicks) = 4
    /\ RejectedAfterSwitchBack

\* ------------------------------------------------------------------------
\* last_read_time
\* ------------------------------------------------------------------------
\* The step issued into_output_pin and the HAL performed it.
SwitchedBack ==
    /\ Len(pin_ops') > Len(pin_ops)
    /\ pin_ops'[Len(pin_ops')] = "into_output_pin"

\* C33: a step in which the line is switched back to output leaves
\* last_read_time at the current clock reading (nothing has elapsed since),
\* whatever the result of the attempt; every other step of a constructed
\* handle leaves last_read_time alone: what has elapsed since it grows by
\* the time the step took, the same by which the time since the line became
\* idle grows.
C33_StampedAtSwitchBack ==
    [][ pc \notin {"new", "failed"}
        => IF SwitchedBack
           THEN since_last_read' = 0
           ELSE /\ since_last_read' >= since_last_read
                /\ since_last_read' - since_last_read = since_idle' - since_idle ]_vars

\* An attempt that waited, sent its request, got a checksum failure and
\* switched back: nothing has elapsed since last_read_time.
C33_Witness ==
    /\ rx_seen # None
    /\ rx_seen.in_ok
    /\ rx_seen.out_ok
    /\ rx_seen.sample.bytes = <<0, 0, 0, 0, 1>>
    /\ LastAttempt = ErrBadData
    /\ Len(delays) = 2
    /\ pin_ops[Len(pin_ops)] = "into_output_pin"
    /\ since_last_read = 0

\* ------------------------------------------------------------------------
\* read_temperature on the bus
\* ------------------------------------------------------------------------
ReadTemperatureOnBusReturned ==
    pc = "fn" /\ fn_in.fn = "read_temperature on the bus" /\ fn_out # None

\* The order of bus operations the claim gives: initialisation, Skip ROM,
\* Convert Temperature, the delay, initialisation, Skip ROM, Read
\* Scratchpad, nine byte reads.
ClaimedBusOrder ==
    << [op |-> "reset"], [op |-> "write_byte", byte |-> 204],
       [op |-> "write_byte", byte |-> 68], [op |-> "delay_us", us |-> 750000],
       [op |-> "reset"], [op |-> "write_byte", byte |-> 204],
       [op |-> "write_byte", byte |-> 190],
       [op |-> "read_byte"], [op |-> "read_byte"], [op |-> "read_byte"],
       [op |-> "read_byte"], [op |-> "read_byte"], [op |-> "read_byte"],
       [op |-> "read_byte"], [op |-> "read_byte"], [op |-> "read_byte"] >>

\* C34: the bus operations of a read_temperature call are the first ones of
\* the claimed order, all 16 when it returns a temperature or finds a CRC
\* mismatch; each function command written has a reset and the Skip ROM
\* command right before it; the delay after Convert Temperature is one
\* call, followed by the reset, and is at least the conversion time of
\* every resolution.
C34_BusOrder ==
    ReadTemperatureOnBusReturned
    => /\ Len(fn_out.ops) <= 16
       /\ fn_out.ops = SubSeq(ClaimedBusOrder, 1, Len(fn_out.ops))
       /\ fn_out.result.kind \in {"Ok", "BadData"} => Len(fn_out.ops) = 16
       /\ \A k \in 1..Len(fn_out.ops) :
            /\ ( /\ fn_out.ops[k].op = "write_byte"
                 /\ fn_out.ops[k].byte \in {68, 190} )
               => /\ k >= 3
                  /\ fn_out.ops[k - 2].op = "reset"
                  /\ fn_out.ops[k - 1] = [op |-> "write_byte", byte |-> 204]
            /\ fn_out.ops[k].op = "delay_us"
               => /\ k >= 2
                  /\ fn_out.ops[k - 1] = [op |-> "write_byte", byte |-> 68]
                  /\ k < Len(fn_out.ops) => fn_out.ops[k + 1].op = "reset"
                  /\ \A mode \in ResolutionModes :
                        fn_out.ops[k].us >= get_conversion_time(mode)

\* A call that went through and returned a temperature.
C34_Witness ==
    /\ ReadTemperatureOnBusReturned
    /\ fn_in.fail_at = 0
    /\ fn_out.result.kind = "Ok"
    /\ Len(fn_out.ops) = 16
    /\ fn_out.ops[4] = [op |-> "delay_us", us |-> 750000]
    /\ fn_out.ops[16].op = "read_byte"

\* ------------------------------------------------------------------------
\* Bytes on the one-wire bus
\* ------------------------------------------------------------------------
ByteWrittenAndRead ==
    pc = "fn" /\ fn_in.fn = "write_byte, read_byte" /\ fn_out # None

\* Bit n (0 the least significant) of a byte.
BitNumber(byte, n) == (byte \div (2 ^ n)) % 2

\* The bit a write slot carries: 0 when the line is held low for the whole
\* 60 us slot, 1 when it is released after 1 us.
SlotBit(slot) ==
    CHOOSE b \in 0..1 :
        \E low \in {k \in 1..Len(slot) : slot[k] = [op |-> "set_low"]} :
            /\ slot[low + 1].op = "delay_us"
            /\ slot[low + 2] = [op |-> "set_high"]
            /\ slot[low + 1].us = (IF b = 0 THEN 60 ELSE 1)

\* C35: write_byte(b) issues eight write slots of which the j-th (from 0)
\* carries bit j of b; read_byte has bit j of its result set exactly when
\* the line is high at the sample of its j-th slot; read over slots that
\* repeat the written ones, it returns b.
C35_LsbFirstRoundTrip ==
    ByteWrittenAndRead
    => /\ Len(fn_out.written) = 8
       /\ \A j \in 0..7 :
            /\ Cardinality({k \in 1..Len(fn_out.written[j + 1]) :
                                fn_out.written[j + 1][k] = [op |-> "set_low"]}) = 1
            /\ SlotBit(fn_out.written[j + 1]) = BitNumber(fn_in.byte, j)
            /\ (BitNumber(fn_out.value, j) = 1) <=> (fn_out.sampled[j + 1] = "High")
            /\ (fn_out.sampled[j + 1] = "High") <=> (SlotBit(fn_out.written[j + 1]) = 1)
       /\ fn_out.value = fn_in.byte

\* 0x4E (0100 1110) written and read back: the first slot carries 0, the
\* second 1.
C35_Witness ==
    /\ ByteWrittenAndRead
    /\ fn_in.byte = 78
    /\ SlotBit(fn_out.written[1]) = 0
    /\ SlotBit(fn_out.written[2]) = 1
    /\ fn_out.sampled = <<"Low", "High", "High", "High", "Low", "Low", "High", "Low">>
    /\ fn_out.value = 78

\* ------------------------------------------------------------------------
\* Negative zero
\* ------------------------------------------------------------------------
\* C36: for every register value of -15..-1 sixteenths (strictly between
\* -1 degree and 0), from_bytes gives integer part 0 and a decimal part
\* equal to the register value.
C36_NegativeZero ==
    (FromBytesReturned /\ RegisterValue(fn_in.low_sig, fn_in.high_sig) \in (0 - 15)..(0 - 1))
    => /\ fn_out.value.integer = 0
       /\ fn_out.value.decimal = RegisterValue(fn_in.low_sig, fn_in.high_sig)
       /\ fn_out.value.decimal < 0

\* from_bytes(0xF1, 0xFF): integer part 0, decimal part -15.
C36_Witness ==
    /\ FromBytesReturned
    /\ fn_in.low_sig = 241
    /\ fn_in.high_sig = 255
    /\ fn_out = Returned([integer |-> 0, decimal |-> 0 - 15])

\* ------------------------------------------------------------------------
\* The range of the decimal part
\* ------------------------------------------------------------------------
\* v / 16 truncated toward zero.
TruncateSixteenths(v) == IF v >= 0 THEN v \div 16 ELSE 0 - ((0 - v) \div 16)

\* C40: for every register pair the decimal part lies in -15..15, its sign
\* is never opposite to the sign of the integer part, and the integer part
\* is the register value / 16 truncated toward zero.
C40_DecimalWithinFifteen ==
    FromBytesReturned
    => /\ fn_out.value.decimal \in (0 - 15)..15
       /\ fn_out.value.decimal * fn_out.value.integer >= 0
       /\ fn_out.value.integer
            = TruncateSixteenths(RegisterValue(fn_in.low_sig, fn_in.high_sig))

\* ------------------------------------------------------------------------
\* The panic after the loop of read
\* ------------------------------------------------------------------------
\* The for loop of read has run max_attempts times.
LoopExhausted == pc = "loop" /\ i >= options.max_attempts

\* C37: when the loop of read is exhausted, last_result holds the result of
\* an attempt of this call, so the panic after the loop is not reached; and
\* a call that has returned ran at least one attempt and returned the result
\* of its last one.
C37_FinalPanicUnreachable ==
    /\ LoopExhausted
        => /\ last_result # None
           /\ Len(attempt_log) >= 1
           /\ last_result = LastAttempt
    /\ ReadReturned
        => /\ Len(attempt_log) >= 1
           /\ returned = LastAttempt
    /\ pc \notin {"new", "failed"} => options.max_attempts >= 1

\* Both attempts of a call with max_attempts = 2 ended with BadData: the
\* loop is exhausted with that error as the last result.
C37_Witness ==
    /\ LoopExhausted
    /\ options.max_attempts = 2
    /\ attempt_log = <<ErrBadData, ErrBadData>>
    /\ last_result = ErrBadData

\* ------------------------------------------------------------------------
\* Missing pins
\* ------------------------------------------------------------------------
\* C38: no read call panics: every unwrap of input_pin or output_pin finds
\* a pin, also after a mode switch or a level change has failed with a HAL
\* error in an earlier call or in an earlier attempt of the same call.
C38_NoPanicOnMissingPin ==
    pc # "panicked"

\* ------------------------------------------------------------------------
\* C39: for every frame of pulse counts the threshold returned by
\* determine_tick_threshold is at least the smallest and at most the largest
\* count of the frame, so parse_byte reads every pulse of the smallest count
\* as 0.
\* ------------------------------------------------------------------------
ThresholdComputed ==
    /\ pc = "fn"
    /\ fn_in.fn \in {"determine_tick_threshold",
                     "determine_tick_threshold, counts near 2^31"}
    /\ fn_out # None
    /\ fn_out.kind = "Returned"

C39_ThresholdWithinFrame ==
    ThresholdComputed
    => /\ ~U32Lt(fn_out.value, fn_out.min)
       /\ ~U32Lt(fn_out.max, fn_out.value)
       /\ \A k \in 1..Len(fn_in.bit_ticks) :
            fn_in.bit_ticks[k] = fn_out.min
            => ParsedBit(fn_in.bit_ticks, k - 1, fn_out.value, 0) = 0

\* The same for the frames whose counts all stay below 2^31.
ThresholdWithinFrameBelow31 ==
    (ThresholdComputed /\ fn_out.min >= 0 /\ fn_out.max >= 0)
    => /\ ~U32Lt(fn_out.value, fn_out.min)
       /\ ~U32Lt(fn_out.max, fn_out.value)

\* A debug build stops at the overflow instead of returning a threshold.
ThresholdNeverPanics ==
    (pc = "fn" /\ fn_out # None) => fn_out.kind # "Panicked"

====
